---- MODULE Spec2Model ----
(***************************************************************************)
(* The adaptor/client supervision protocol of deadline-cloud-for-blender.  *)
(*                                                                         *)
(* The repository holds two adaptors with the same lifecycle:              *)
(*   "deadline" : src/src/deadline/blender_adaptor/BlenderAdaptor          *)
(*   "dafb"     : src/src/deadline_adaptor_for_blender/BlenderAdaptor      *)
(* The variable impl selects which one a behaviour runs.                   *)
(*                                                                         *)
(* Threads: the controlling thread (pc) runs on_start, on_run, on_cleanup; *)
(* the cancel thread (cancel_pc) runs on_cancel; the output-reading thread *)
(* runs the regex handlers; the client process dequeues commands through   *)
(* the IPC server thread.  Every read of shared state by the controlling   *)
(* thread is a step of its own, so the other threads interleave with the   *)
(* evaluation of a loop condition the way Python threads do.               *)
(***************************************************************************)
EXTENDS Integers, Sequences, FiniteSets, TLC

VARIABLES
    impl,               \* which adaptor: "deadline" or "dafb"
    strict,             \* init_data.get("strict_error_checking", False)
    init_keys,          \* the optional keys present in init_data
    pc,                 \* position of the controlling thread
    queue,              \* _action_queue: sequence of actions
    enq_count,          \* history: number of actions enqueued so far
    enq_log,            \* history: names the call in progress enqueued, in order
    client,             \* _blender_client: "none", "running", "closing", "exited"
    returncode,         \* _blender_client.returncode
    handlers,           \* regex callbacks registered by _start_blender_client
    server,             \* _server / server_path: "none", "starting", "serving", "shutdown"
    server_thread,      \* _server_thread alive?
    is_rendering,       \* _is_rendering
    exc_info,           \* _exc_info: "None" or the matched error line
    performing_cleanup, \* _performing_cleanup
    produced,           \* _produced_outputs (dafb)
    expected,           \* _expected_outputs (dafb)
    progress,           \* last value given to update_status(progress=...)
    timer,              \* the _get_timer closure in use: "off", "on", "expired"
    runs,               \* number of on_run calls made so far
    run_data,           \* the run_data of the current on_run call
    call,               \* the lifecycle call that is running or ran last
    result,             \* how that call ended (NoResult while it runs)
    cancel_pc,          \* position of the thread calling on_cancel
    terminate_calls,    \* history: the kinds of terminate() calls made
    lines,              \* number of output lines given to the handlers so far
    hist,               \* history record used to state the properties
    fn_in,              \* the input of the function under study (<<>> in a session)
    fn_out              \* what that function has returned or raised (<<>> before)

vars == <<impl, strict, init_keys, pc, queue, enq_count, enq_log, client, returncode,
          handlers, server, server_thread, is_rendering, exc_info,
          performing_cleanup, produced, expected, progress, timer, runs, run_data,
          call, result, cancel_pc, terminate_calls, lines, hist, fn_in, fn_out>>

(***************************************************************************)
(* Bounds of the model.                                                    *)
(***************************************************************************)
MaxRuns == 1            \* on_run calls per session
MaxLines == 2           \* output lines the regex handlers are given per session

(***************************************************************************)
(* Program constants.                                                      *)
(***************************************************************************)
_FIRST_BLENDER_ACTIONS == <<"scene_file">>

_BLENDER_INIT_KEYS ==
    <<"render_scene", "view_layer", "camera", "output_dir", "output_file_name",
      "output_format">>

_FIRST_RUN_ACTIONS == <<"scene">>

_BLENDER_RUN_KEYS == {"layer", "animation", "output_path"}

\* Exit codes the process can end with on its own; KilledCode after a kill.
ExitCodes == {137}
KilledCode == -9

\* The lines of the process that match the error regexes, in the order the
\* process prints them.
ErrorLines == <<"Error: A", "Error: B">>

\* The error line the process prints after the line e ("None": at the start).
NextErrorLine(e) ==
    IF e = "None" THEN ErrorLines[1]
    ELSE LET i == CHOOSE j \in 1..Len(ErrorLines) : ErrorLines[j] = e
         IN  IF i < Len(ErrorLines) THEN ErrorLines[i + 1] ELSE ErrorLines[i]

\* <<done, total>> of the progress lines the process prints.
ProgressLines == {<<1, 2>>}

Impls == {"deadline", "dafb"}

Range(s) == {s[i] : i \in 1..Len(s)}

RECURSIVE SelectSeq2(_, _)
\* The subsequence of s whose elements are in S, in the order of s.
SelectSeq2(s, S) ==
    IF s = <<>> THEN <<>>
    ELSE IF Head(s) \in S THEN <<Head(s)>> \o SelectSeq2(Tail(s), S)
         ELSE SelectSeq2(Tail(s), S)

(***************************************************************************)
(* ActionsQueue (openjd adaptor runtime), as the adaptors use it.          *)
(***************************************************************************)
\* An action of the queue; ticket n says it is the n-th action enqueued.
Action(name, n) == [name |-> name, ticket |-> n]

\* An enqueue_action that ignores front.
enqueue_action_back(q, a, front) == Append(q, a)

enqueue_action(q, a, front) == IF front THEN <<a>> \o q ELSE Append(q, a)

RECURSIVE EnqueueAll(_, _, _)
\* enqueue_action for each of names, in order, the first with ticket n + 1.
EnqueueAll(q, names, n) ==
    IF names = <<>> THEN q
    ELSE EnqueueAll(enqueue_action(q, Action(Head(names), n + 1), FALSE),
                    Tail(names), n + 1)

Names(q) == [i \in 1..Len(q) |-> q[i].name]

(***************************************************************************)
(* Properties of the adaptor object.                                       *)
(***************************************************************************)
\* _blender_is_running: the client exists and its process has not ended.
_blender_is_running == client \in {"running", "closing"}

\* _has_exception raises when it does not return False.
HasExceptionRaises == exc_info # "None" /\ ~performing_cleanup


(***************************************************************************)
(* How a lifecycle call ended.                                             *)
(***************************************************************************)
Result(kind, line, code) == [kind |-> kind, line |-> line, code |-> code]

NoResult == Result("none", "None", 0)
Returned == Result("returned", "None", 0)
Raised(kind) == Result(kind, "None", 0)
\* "raise self._exc_info": the pending exception, which carries the matched line.
RaisedPending == Result("pending_exception", exc_info, 0)

\* Positions of the controlling thread inside on_run's busy wait.
RunWaitPcs == {"run_chk_running", "run_chk_rendering", "run_chk_exc"}

\* Positions of on_run from the moment it has set the rendering flag to the
\* end of its wait.
RunActivePcs == {"run_enq_first", "run_enq_keys", "run_enq_start"} \cup RunWaitPcs

\* The payloads of init_data: which optional keys are present.
InitPayloads == {{}, {"output_dir", "camera"}}

\* The payloads of run_data: validity against the schema, optional keys present.
RunPayloads ==
    {rd \in [valid : BOOLEAN, keys : {{}, {"layer", "output_path"}}] :
        ~rd.valid => rd.keys = {}}

NoRunData == [valid |-> TRUE, keys |-> {}]

\* History kept to state the properties.  The fields NewCall resets are about
\* the lifecycle call in progress and start afresh with each call.
NoHistory ==
    [loop_exit |-> "none",       \* why on_start's wait ended
     exc_in_wait |-> FALSE,      \* _handle_error ran during on_run's wait
     exit_in_wait |-> "no",      \* the process ended during on_run's wait, how
     complete_in_run |-> FALSE,  \* _handle_complete cleared the flag on_run set
     exc_at_cleanup |-> FALSE,   \* an exception was pending when on_cleanup began
     reader_raised |-> FALSE,    \* a handler raised on the output-reading thread
     after_close |-> "none",     \* first name delivered since "close" was enqueued
     delivered |-> 0,            \* ticket of the last command delivered, "close" aside
     exc_at_run |-> "None"]      \* _exc_info when on_run found the process running

NewCall(h) ==
    [h EXCEPT !.loop_exit = "none", !.exc_in_wait = FALSE, !.exit_in_wait = "no",
              !.complete_in_run = FALSE, !.reader_raised = FALSE,
              !.exc_at_run = "None"]

\* The fields of an adaptor object after construction, before any call.
Constructed ==
    /\ pc = "idle"
    /\ queue = <<>>
    /\ enq_count = 0
    /\ enq_log = <<>>
    /\ client = "none"
    /\ returncode = 0
    /\ handlers = {}
    /\ server = "none"
    /\ server_thread = FALSE
    /\ is_rendering = FALSE
    /\ exc_info = "None"
    /\ performing_cleanup = FALSE
    /\ progress = <<0, 1>>
    /\ timer = "off"
    /\ runs = 0
    /\ run_data = NoRunData
    /\ call = "none"
    /\ result = NoResult
    /\ cancel_pc = "idle"
    /\ terminate_calls = {}
    /\ lines = 0
    /\ hist = NoHistory

Init ==
    /\ impl \in Impls
    /\ strict \in BOOLEAN
    /\ init_keys \in (IF impl = "deadline" THEN InitPayloads ELSE {{}})
    /\ Constructed
    /\ produced = 0
    /\ expected = 0
    /\ fn_in = <<>>
    /\ fn_out = <<>>

(***************************************************************************)
(* on_start                                                                *)
(***************************************************************************)
\* A _populate_action_queue that enqueues every init key, present or not.
InitActionsEveryKey ==
    <<"render_engine">> \o _FIRST_BLENDER_ACTIONS \o _BLENDER_INIT_KEYS

\* The actions on_start enqueues before it starts the client.
InitActionsDeadline ==
    <<"render_engine">> \o _FIRST_BLENDER_ACTIONS
        \o SelectSeq2(_BLENDER_INIT_KEYS, init_keys)

\* A dafb on_start that enqueues the asset resolution before the renderer.
InitActionsDafbSwapped == <<"resolve_assets", "renderer">>

InitActionsDafb == <<"renderer", "resolve_assets">>

InitActions == IF impl = "deadline" THEN InitActionsDeadline ELSE InitActionsDafb

\* validate(init_data); update_status(progress=0); _start_blender_server_thread
\* starts the thread, and _wait_for_server takes its timer.
OnStartBegin ==
    /\ pc = "idle"
    /\ call = "none"
    /\ call' = "on_start"
    /\ pc' = "start_wait_server"
    /\ progress' = <<0, 1>>
    /\ server' = "starting"
    /\ server_thread' = TRUE
    /\ timer' = "on"
    /\ UNCHANGED <<impl, strict, init_keys, queue, enq_count, enq_log, client,
                   returncode, handlers, is_rendering, exc_info, performing_cleanup,
                   produced, expected, runs, run_data, result, cancel_pc,
                   terminate_calls, lines, hist, fn_in, fn_out>>

\* The server thread: AdaptorServer(...) is built and serve_forever() listens.
ServerPublish ==
    /\ server = "starting"
    /\ server' = "serving"
    /\ UNCHANGED <<impl, strict, init_keys, pc, queue, enq_count, enq_log, client,
                   returncode, handlers, server_thread, is_rendering, exc_info,
                   performing_cleanup, produced, expected, progress, timer, runs,
                   run_data, call, result, cancel_pc, terminate_calls, lines, hist,
                   fn_in, fn_out>>

\* A _wait_for_server that returns without a path.
WaitForServerAny ==
    /\ pc = "start_wait_server"
    /\ pc' = "start_populate"
    /\ timer' = "off"
    /\ UNCHANGED <<impl, strict, init_keys, queue, enq_count, enq_log, client,
                   returncode, handlers, server, server_thread, is_rendering, exc_info,
                   performing_cleanup, produced, expected, progress, runs, run_data,
                   call, result, cancel_pc, terminate_calls, lines, hist, fn_in, fn_out>>

\* _wait_for_server returns the path once the server has one.
WaitForServerOk ==
    /\ pc = "start_wait_server"
    /\ server = "serving"
    /\ pc' = "start_populate"
    /\ timer' = "off"
    /\ UNCHANGED <<impl, strict, init_keys, queue, enq_count, enq_log, client,
                   returncode, handlers, server, server_thread, is_rendering, exc_info,
                   performing_cleanup, produced, expected, progress, runs, run_data,
                   call, result, cancel_pc, terminate_calls, lines, hist, fn_in, fn_out>>

\* _wait_for_server raises RuntimeError when the timer ends with no path.
WaitForServerFail ==
    /\ pc = "start_wait_server"
    /\ server # "serving"
    /\ timer = "expired"
    /\ pc' = "idle"
    /\ timer' = "off"
    /\ result' = Raised("RuntimeError_server")
    /\ enq_log' = <<>>
    /\ UNCHANGED <<impl, strict, init_keys, queue, enq_count, client, returncode,
                   handlers, server, server_thread, is_rendering, exc_info,
                   performing_cleanup, produced, expected, progress, runs, run_data,
                   call, cancel_pc, terminate_calls, lines, hist, fn_in, fn_out>>

\* _populate_action_queue (deadline); the two enqueue_action calls (dafb).
PopulateActionQueue ==
    /\ pc = "start_populate"
    /\ queue' = EnqueueAll(queue, InitActions, enq_count)
    /\ enq_count' = enq_count + Len(InitActions)
    /\ enq_log' = enq_log \o InitActions
    /\ pc' = "start_client"
    /\ UNCHANGED <<impl, strict, init_keys, client, returncode, handlers, server,
                   server_thread, is_rendering, exc_info, performing_cleanup, produced,
                   expected, progress, timer, runs, run_data, call, result, cancel_pc,
                   terminate_calls, lines, hist, fn_in, fn_out>>

\* Regex callbacks with the error callback whatever strict_error_checking is.
RegexCallbacksAlwaysError ==
    {"complete", "progress", "error"}
        \cup (IF impl = "deadline" THEN {"version"} ELSE {"set_expected_outputs"})

\* The regex callbacks _get_regex_callbacks returns.
RegexCallbacks ==
    {"complete", "progress"}
        \cup (IF impl = "deadline" THEN {"version"} ELSE {"set_expected_outputs"})
        \cup (IF strict THEN {"error"} ELSE {})

\* _start_blender_client starts the process, then on_start takes its timer.
StartBlenderClient ==
    /\ pc = "start_client"
    /\ client' = "running"
    /\ handlers' = RegexCallbacks
    /\ timer' = "on"
    /\ pc' = "start_chk_running"
    /\ UNCHANGED <<impl, strict, init_keys, queue, enq_count, enq_log, returncode,
                   server, server_thread, is_rendering, exc_info, performing_cleanup,
                   produced, expected, progress, runs, run_data, call, result,
                   cancel_pc, terminate_calls, lines, hist, fn_in, fn_out>>

\* _start_blender_client raises FileNotFoundError (client script or project file).
StartBlenderClientNotFound ==
    /\ pc = "start_client"
    /\ pc' = "idle"
    /\ result' = Raised("FileNotFoundError")
    /\ enq_log' = <<>>
    /\ UNCHANGED <<impl, strict, init_keys, queue, enq_count, client, returncode,
                   handlers, server, server_thread, is_rendering, exc_info,
                   performing_cleanup, produced, expected, progress, timer, runs,
                   run_data, call, cancel_pc, terminate_calls, lines, hist, fn_in,
                   fn_out>>

\* Where on_start goes when its loop ends: the deadline adaptor records a
\* telemetry event before it looks at the queue again.
AfterStartLoop == IF impl = "deadline" THEN "start_telemetry" ELSE "start_post_len"

\* while self._blender_is_running ...
StartChkRunning ==
    /\ pc = "start_chk_running"
    /\ IF _blender_is_running
       THEN pc' = "start_chk_exc" /\ hist' = hist
       ELSE pc' = AfterStartLoop /\ hist' = [hist EXCEPT !.loop_exit = "dead"]
    /\ UNCHANGED <<impl, strict, init_keys, queue, enq_count, enq_log, client,
                   returncode, handlers, server, server_thread, is_rendering, exc_info,
                   performing_cleanup, produced, expected, progress, timer, runs,
                   run_data, call, result, cancel_pc, terminate_calls, lines, fn_in,
                   fn_out>>

\* ... and not self._has_exception ...
StartChkExc ==
    /\ pc = "start_chk_exc"
    /\ IF HasExceptionRaises
       THEN pc' = "idle" /\ result' = RaisedPending /\ timer' = "off"
                         /\ enq_log' = <<>>
       ELSE pc' = "start_chk_len" /\ UNCHANGED <<result, timer, enq_log>>
    /\ UNCHANGED <<impl, strict, init_keys, queue, enq_count, client, returncode,
                   handlers, server, server_thread, is_rendering, exc_info,
                   performing_cleanup, produced, expected, progress, runs, run_data,
                   call, cancel_pc, terminate_calls, lines, hist, fn_in, fn_out>>

\* ... and len(self._action_queue) > 0 ...
StartChkLen ==
    /\ pc = "start_chk_len"
    /\ IF Len(queue) > 0
       THEN pc' = "start_chk_timer" /\ hist' = hist
       ELSE pc' = AfterStartLoop /\ hist' = [hist EXCEPT !.loop_exit = "drained"]
    /\ UNCHANGED <<impl, strict, init_keys, queue, enq_count, enq_log, client,
                   returncode, handlers, server, server_thread, is_rendering, exc_info,
                   performing_cleanup, produced, expected, progress, timer, runs,
                   run_data, call, result, cancel_pc, terminate_calls, lines, fn_in,
                   fn_out>>

\* ... and is_not_timed_out(): time.sleep(0.1)
StartChkTimer ==
    /\ pc = "start_chk_timer"
    /\ IF timer = "on"
       THEN pc' = "start_chk_running" /\ hist' = hist
       ELSE pc' = AfterStartLoop /\ hist' = [hist EXCEPT !.loop_exit = "timeout"]
    /\ UNCHANGED <<impl, strict, init_keys, queue, enq_count, enq_log, client,
                   returncode, handlers, server, server_thread, is_rendering, exc_info,
                   performing_cleanup, produced, expected, progress, timer, runs,
                   run_data, call, result, cancel_pc, terminate_calls, lines, fn_in,
                   fn_out>>

\* self._get_deadline_telemetry_client().record_event(...)
StartTelemetry ==
    /\ pc = "start_telemetry"
    /\ pc' = "start_post_len"
    /\ UNCHANGED <<impl, strict, init_keys, queue, enq_count, enq_log, client,
                   returncode, handlers, server, server_thread, is_rendering, exc_info,
                   performing_cleanup, produced, expected, progress, timer, runs,
                   run_data, call, result, cancel_pc, terminate_calls, lines, hist,
                   fn_in, fn_out>>

\* if len(self._action_queue) > 0: ... (else on_start returns)
StartPostLen ==
    /\ pc = "start_post_len"
    /\ IF Len(queue) > 0
       THEN pc' = "start_post_timer" /\ UNCHANGED <<result, timer, enq_log>>
       ELSE pc' = "idle" /\ result' = Returned /\ timer' = "off" /\ enq_log' = <<>>
    /\ UNCHANGED <<impl, strict, init_keys, queue, enq_count, client, returncode,
                   handlers, server, server_thread, is_rendering, exc_info,
                   performing_cleanup, produced, expected, progress, runs, run_data,
                   call, cancel_pc, terminate_calls, lines, hist, fn_in, fn_out>>

\* if is_not_timed_out(): raise RuntimeError(...) else: raise TimeoutError(...)
StartPostTimer ==
    /\ pc = "start_post_timer"
    /\ result' = IF timer = "on" THEN Raised("RuntimeError_init")
                       ELSE Raised("TimeoutError")
    /\ pc' = "idle"
    /\ timer' = "off"
    /\ enq_log' = <<>>
    /\ UNCHANGED <<impl, strict, init_keys, queue, enq_count, client, returncode,
                   handlers, server, server_thread, is_rendering, exc_info,
                   performing_cleanup, produced, expected, progress, runs, run_data,
                   call, cancel_pc, terminate_calls, lines, hist, fn_in, fn_out>>

\* Time passes: the timeout of the timer in use is reached.
TimerExpires ==
    /\ timer = "on"
    /\ pc # "terminated"
    /\ timer' = "expired"
    /\ UNCHANGED <<impl, strict, init_keys, pc, queue, enq_count, enq_log, client,
                   returncode, handlers, server, server_thread, is_rendering, exc_info,
                   performing_cleanup, produced, expected, progress, runs, run_data,
                   call, result, cancel_pc, terminate_calls, lines, hist, fn_in, fn_out>>

(***************************************************************************)
(* on_run                                                                  *)
(***************************************************************************)
\* An on_run that goes on without looking at the process.
OnRunBeginUnchecked ==
    /\ pc = "idle"
    /\ \/ call = "on_start" /\ result = Returned
       \/ call = "on_run"
    /\ call' = "on_run"
    /\ runs < MaxRuns
    /\ runs' = runs + 1
    /\ hist' = NewCall(hist)
    /\ pc' = IF impl = "deadline" THEN "run_enq_camera" ELSE "run_validate"
    /\ result' = NoResult
    /\ \E rd \in RunPayloads :
          /\ impl = "deadline" => rd.keys = {}
          /\ run_data' = rd
    /\ UNCHANGED <<impl, strict, init_keys, queue, enq_count, enq_log, client,
                   returncode, handlers, server, server_thread, is_rendering, exc_info,
                   performing_cleanup, produced, expected, progress, timer, cancel_pc,
                   terminate_calls, lines, fn_in, fn_out>>

\* on_run(run_data) is called, after an on_start that returned or after an
\* earlier on_run: if not self._blender_is_running: raise ...
OnRunBegin ==
    /\ pc = "idle"
    /\ \/ call = "on_start" /\ result = Returned
       \/ call = "on_run"
    /\ call' = "on_run"
    /\ runs < MaxRuns
    /\ runs' = runs + 1
    /\ hist' = [NewCall(hist) EXCEPT
                   !.exc_at_run = IF _blender_is_running THEN exc_info ELSE "None"]
    /\ IF _blender_is_running
       THEN /\ pc' = IF impl = "deadline" THEN "run_enq_camera" ELSE "run_validate"
            /\ result' = NoResult
            /\ \E rd \in RunPayloads :
                  /\ impl = "deadline" => rd.keys = {}
                  /\ run_data' = rd
       ELSE /\ pc' = "idle"
            /\ result' = Raised("BlenderNotRunningError")
            /\ run_data' = NoRunData
    /\ UNCHANGED <<impl, strict, init_keys, queue, enq_count, enq_log, client,
                   returncode, handlers, server, server_thread, is_rendering, exc_info,
                   performing_cleanup, produced, expected, progress, timer, cancel_pc,
                   terminate_calls, lines, fn_in, fn_out>>

\* deadline: self._action_queue.enqueue_action(Action("camera", run_data))
RunEnqCamera ==
    /\ pc = "run_enq_camera"
    /\ queue' = enqueue_action(queue, Action("camera", enq_count + 1), FALSE)
    /\ enq_count' = enq_count + 1
    /\ enq_log' = Append(enq_log, "camera")
    /\ pc' = "run_validate"
    /\ UNCHANGED <<impl, strict, init_keys, client, returncode, handlers, server,
                   server_thread, is_rendering, exc_info, performing_cleanup, produced,
                   expected, progress, timer, runs, run_data, call, result, cancel_pc,
                   terminate_calls, lines, hist, fn_in, fn_out>>

\* validators.run_data.validate(run_data)
RunValidate ==
    /\ pc = "run_validate"
    /\ IF run_data.valid
       THEN /\ pc' = IF impl = "deadline" THEN "run_set_rendering"
                     ELSE "run_reset_produced"
            /\ result' = result
       ELSE /\ pc' = "idle"
            /\ result' = Raised("ValidationError")
    /\ run_data' = IF run_data.valid THEN run_data ELSE NoRunData
    /\ enq_log' = IF run_data.valid THEN enq_log ELSE <<>>
    /\ UNCHANGED <<impl, strict, init_keys, queue, enq_count, client, returncode,
                   handlers, server, server_thread, is_rendering, exc_info,
                   performing_cleanup, produced, expected, progress, timer, runs, call,
                   cancel_pc, terminate_calls, lines, hist, fn_in, fn_out>>

\* dafb: self._produced_outputs = 0
RunResetProduced ==
    /\ pc = "run_reset_produced"
    /\ produced' = 0
    /\ pc' = "run_set_expected"
    /\ UNCHANGED <<impl, strict, init_keys, queue, enq_count, enq_log, client,
                   returncode, handlers, server, server_thread, is_rendering, exc_info,
                   performing_cleanup, expected, progress, timer, runs, run_data, call,
                   result, cancel_pc, terminate_calls, lines, hist, fn_in, fn_out>>

\* dafb: self._expected_outputs = 1
RunSetExpected ==
    /\ pc = "run_set_expected"
    /\ expected' = 1
    /\ pc' = "run_set_rendering"
    /\ UNCHANGED <<impl, strict, init_keys, queue, enq_count, enq_log, client,
                   returncode, handlers, server, server_thread, is_rendering, exc_info,
                   performing_cleanup, produced, progress, timer, runs, run_data, call,
                   result, cancel_pc, terminate_calls, lines, hist, fn_in, fn_out>>

\* self._blender_is_rendering = True (deadline); self._is_rendering = True (dafb)
RunSetRendering ==
    /\ pc = "run_set_rendering"
    /\ is_rendering' = TRUE
    /\ hist' = [hist EXCEPT !.complete_in_run = FALSE]
    /\ pc' = IF impl = "deadline" THEN "run_enq_start" ELSE "run_enq_first"
    /\ UNCHANGED <<impl, strict, init_keys, queue, enq_count, enq_log, client,
                   returncode, handlers, server, server_thread, exc_info,
                   performing_cleanup, produced, expected, progress, timer, runs,
                   run_data, call, result, cancel_pc, terminate_calls, lines, fn_in,
                   fn_out>>

\* dafb: for action_item in _FIRST_RUN_ACTIONS: enqueue_action(...)
RunEnqFirst ==
    /\ pc = "run_enq_first"
    /\ queue' = EnqueueAll(queue, _FIRST_RUN_ACTIONS, enq_count)
    /\ enq_count' = enq_count + Len(_FIRST_RUN_ACTIONS)
    /\ enq_log' = enq_log \o _FIRST_RUN_ACTIONS
    /\ pc' = "run_enq_keys"
    /\ UNCHANGED <<impl, strict, init_keys, client, returncode, handlers, server,
                   server_thread, is_rendering, exc_info, performing_cleanup, produced,
                   expected, progress, timer, runs, run_data, call, result, cancel_pc,
                   terminate_calls, lines, hist, fn_in, fn_out>>

\* The orders in which a for loop can visit the elements of the set S.
Orders(S) ==
    {s \in [1..Cardinality(S) -> S] : \A i, j \in 1..Cardinality(S) : s[i] = s[j] => i = j}

\* A loop over _BLENDER_RUN_KEYS that enqueues a command for every key, present
\* in run_data or not.
RunEnqKeysAll ==
    /\ pc = "run_enq_keys"
    /\ \E order \in Orders(_BLENDER_RUN_KEYS) :
          /\ queue' = EnqueueAll(queue, order, enq_count)
          /\ enq_count' = enq_count + Len(order)
          /\ enq_log' = enq_log \o order
    /\ pc' = "run_enq_start"
    /\ UNCHANGED <<impl, strict, init_keys, client, returncode, handlers, server,
                   server_thread, is_rendering, exc_info, performing_cleanup, produced,
                   expected, progress, timer, runs, run_data, call, result, cancel_pc,
                   terminate_calls, lines, hist, fn_in, fn_out>>

\* dafb: for action_item in _BLENDER_RUN_KEYS: if action_item.name in run_data: ...
\* _BLENDER_RUN_KEYS is a set, so the order of the visit is not fixed.
RunEnqKeys ==
    /\ pc = "run_enq_keys"
    /\ \E order \in Orders(_BLENDER_RUN_KEYS) :
          LET names == SelectSeq2(order, run_data.keys)
          IN  /\ queue' = EnqueueAll(queue, names, enq_count)
              /\ enq_count' = enq_count + Len(names)
              /\ enq_log' = enq_log \o names
    /\ pc' = "run_enq_start"
    /\ UNCHANGED <<impl, strict, init_keys, client, returncode, handlers, server,
                   server_thread, is_rendering, exc_info, performing_cleanup, produced,
                   expected, progress, timer, runs, run_data, call, result, cancel_pc,
                   terminate_calls, lines, hist, fn_in, fn_out>>

\* self._action_queue.enqueue_action(Action("start_render", ...))
RunEnqStart ==
    /\ pc = "run_enq_start"
    /\ queue' = enqueue_action(queue, Action("start_render", enq_count + 1), FALSE)
    /\ enq_count' = enq_count + 1
    /\ enq_log' = Append(enq_log, "start_render")
    /\ pc' = "run_chk_running"
    /\ UNCHANGED <<impl, strict, init_keys, client, returncode, handlers, server,
                   server_thread, is_rendering, exc_info, performing_cleanup, produced,
                   expected, progress, timer, runs, run_data, call, result, cancel_pc,
                   terminate_calls, lines, hist, fn_in, fn_out>>

\* while self._blender_is_rendering ...: the getter reads _blender_is_running ...
RunChkRunning ==
    /\ pc = "run_chk_running"
    /\ pc' = IF _blender_is_running THEN "run_chk_rendering" ELSE "run_post"
    /\ UNCHANGED <<impl, strict, init_keys, queue, enq_count, enq_log, client,
                   returncode, handlers, server, server_thread, is_rendering, exc_info,
                   performing_cleanup, produced, expected, progress, timer, runs,
                   run_data, call, result, cancel_pc, terminate_calls, lines, hist,
                   fn_in, fn_out>>

\* An on_run that does not wait for the rendering flag to be cleared.
RunChkRenderingSkips ==
    /\ pc = "run_chk_rendering"
    /\ pc' = "run_post"
    /\ UNCHANGED <<impl, strict, init_keys, queue, enq_count, enq_log, client,
                   returncode, handlers, server, server_thread, is_rendering, exc_info,
                   performing_cleanup, produced, expected, progress, timer, runs,
                   run_data, call, result, cancel_pc, terminate_calls, lines, hist,
                   fn_in, fn_out>>

\* ... and then self._is_rendering
RunChkRendering ==
    /\ pc = "run_chk_rendering"
    /\ pc' = IF is_rendering THEN "run_chk_exc" ELSE "run_post"
    /\ UNCHANGED <<impl, strict, init_keys, queue, enq_count, enq_log, client,
                   returncode, handlers, server, server_thread, is_rendering, exc_info,
                   performing_cleanup, produced, expected, progress, timer, runs,
                   run_data, call, result, cancel_pc, terminate_calls, lines, hist,
                   fn_in, fn_out>>

\* ... and not self._has_exception: time.sleep(0.1)
RunChkExc ==
    /\ pc = "run_chk_exc"
    /\ IF HasExceptionRaises
       THEN pc' = "idle" /\ result' = RaisedPending /\ run_data' = NoRunData
                         /\ enq_log' = <<>>
       ELSE pc' = "run_chk_running" /\ UNCHANGED <<result, run_data, enq_log>>
    /\ UNCHANGED <<impl, strict, init_keys, queue, enq_count, client, returncode,
                   handlers, server, server_thread, is_rendering, exc_info,
                   performing_cleanup, produced, expected, progress, timer, runs, call,
                   cancel_pc, terminate_calls, lines, hist, fn_in, fn_out>>

\* An on_run that returns after its wait whatever became of the process.
RunPostReturns ==
    /\ pc = "run_post"
    /\ result' = Returned
    /\ pc' = "idle"
    /\ run_data' = NoRunData
    /\ enq_log' = <<>>
    /\ UNCHANGED <<impl, strict, init_keys, queue, enq_count, client, returncode,
                   handlers, server, server_thread, is_rendering, exc_info,
                   performing_cleanup, produced, expected, progress, timer, runs, call,
                   cancel_pc, terminate_calls, lines, hist, fn_in, fn_out>>

\* if not self._blender_is_running and self._blender_client: raise ... exit code
RunPost ==
    /\ pc = "run_post"
    /\ result' = IF ~_blender_is_running /\ client # "none"
                     THEN Result("exited_early", "None", returncode)
                     ELSE Returned
    /\ pc' = "idle"
    /\ run_data' = NoRunData
    /\ enq_log' = <<>>
    /\ UNCHANGED <<impl, strict, init_keys, queue, enq_count, client, returncode,
                   handlers, server, server_thread, is_rendering, exc_info,
                   performing_cleanup, produced, expected, progress, timer, runs, call,
                   cancel_pc, terminate_calls, lines, hist, fn_in, fn_out>>

(***************************************************************************)
(* The regex handlers, run by the thread that reads the process's output.  *)
(* The pipe may still hold lines after the process has ended.              *)
(***************************************************************************)
RECURSIVE GCD(_, _)
GCD(a, b) == IF b = 0 THEN a ELSE GCD(b, a % b)

\* A progress value num/den, in lowest terms.
Fraction(num, den) == <<num \div GCD(num, den), den \div GCD(num, den)>>

Percent(n) == <<n, 1>>

\* deadline _handle_progress: int(int(done) / int(total) * 100)
ProgressDeadline(done, total) == Percent((done * 100) \div total)

\* A dafb _handle_progress that rounds down as the deadline adaptor does.
ProgressDafbFloored(done, total) ==
    Percent((100 * (done + produced * total)) \div (total * expected))

\* dafb _handle_progress: (done / total + produced) / expected * 100, not rounded
ProgressDafb(done, total) == Fraction(100 * (done + produced * total), total * expected)

\* A _check_for_exception that always calls the handler.
CheckForExceptionNever == FALSE

\* _check_for_exception: "if not self._has_exception" raises the pending
\* exception in the calling thread instead of calling the handler.
CheckForExceptionRaises == HasExceptionRaises

\* The guarded handler does not run: the exception leaves the reader thread.
HandlerRaisesPending ==
    /\ hist' = [hist EXCEPT !.reader_raised = TRUE]
    /\ UNCHANGED <<impl, strict, init_keys, pc, queue, enq_count, enq_log, client,
                   returncode, handlers, server, server_thread, is_rendering, exc_info,
                   performing_cleanup, produced, expected, progress, timer, runs,
                   run_data, call, result, cancel_pc, terminate_calls, fn_in, fn_out>>

\* A dafb _handle_complete that reports the task complete at every completion
\* line.
HandleCompleteEveryLine ==
    /\ client # "none"
    /\ "complete" \in handlers
    /\ lines < MaxLines
    /\ pc # "terminated"
    /\ lines' = lines + 1
    /\ IF CheckForExceptionRaises
       THEN HandlerRaisesPending
       ELSE IF impl = "deadline"
       THEN /\ is_rendering' = FALSE
            /\ progress' = Percent(100)
            /\ hist' = [hist EXCEPT !.complete_in_run = @ \/ (pc \in RunActivePcs)]
            /\ UNCHANGED <<impl, strict, init_keys, pc, queue, enq_count, enq_log,
                           client, returncode, handlers, server, server_thread,
                           exc_info, performing_cleanup, produced, expected, timer,
                           runs, run_data, call, result, cancel_pc, terminate_calls,
                           fn_in, fn_out>>
       ELSE /\ produced' = produced + 1
            /\ hist' = [hist EXCEPT !.complete_in_run =
                            @ \/ (pc \in RunActivePcs /\ produced + 1 = expected)]
            /\ IF produced + 1 <= expected
               THEN is_rendering' = FALSE /\ progress' = Percent(100)
               ELSE UNCHANGED <<is_rendering, progress>>
            /\ UNCHANGED <<impl, strict, init_keys, pc, queue, enq_count, enq_log,
                           client, returncode, handlers, server, server_thread,
                           exc_info, performing_cleanup, expected, timer, runs,
                           run_data, call, result, cancel_pc, terminate_calls, fn_in,
                           fn_out>>

\* _handle_complete on a line that matches the completion regex
\* (dafb: after the increment, "assert produced <= expected" raises in the
\* reader thread when it fails, and the handler does nothing more).
HandleComplete ==
    /\ client # "none"
    /\ "complete" \in handlers
    /\ lines < MaxLines
    /\ pc # "terminated"
    /\ lines' = lines + 1
    /\ IF CheckForExceptionRaises
       THEN HandlerRaisesPending
       ELSE IF impl = "deadline"
       THEN /\ is_rendering' = FALSE
            /\ progress' = Percent(100)
            /\ hist' = [hist EXCEPT !.complete_in_run = @ \/ (pc \in RunActivePcs)]
            /\ UNCHANGED <<impl, strict, init_keys, pc, queue, enq_count, enq_log,
                           client, returncode, handlers, server, server_thread,
                           exc_info, performing_cleanup, produced, expected, timer,
                           runs, run_data, call, result, cancel_pc, terminate_calls,
                           fn_in, fn_out>>
       ELSE /\ produced' = produced + 1
            /\ hist' = [hist EXCEPT !.complete_in_run =
                            @ \/ (pc \in RunActivePcs /\ produced + 1 = expected)]
            /\ IF produced + 1 = expected
               THEN is_rendering' = FALSE /\ progress' = Percent(100)
               ELSE UNCHANGED <<is_rendering, progress>>
            /\ UNCHANGED <<impl, strict, init_keys, pc, queue, enq_count, enq_log,
                           client, returncode, handlers, server, server_thread,
                           exc_info, performing_cleanup, expected, timer, runs,
                           run_data, call, result, cancel_pc, terminate_calls, fn_in,
                           fn_out>>

\* _handle_progress on a line "... Sample done/total"
HandleProgress ==
    /\ client # "none"
    /\ "progress" \in handlers
    /\ lines < MaxLines
    /\ pc # "terminated"
    /\ lines' = lines + 1
    /\ IF CheckForExceptionRaises
       THEN HandlerRaisesPending
       ELSE \E line \in ProgressLines :
              IF impl = "deadline"
              THEN /\ progress' = ProgressDeadline(line[1], line[2])
                   /\ UNCHANGED <<impl, strict, init_keys, pc, queue, enq_count,
                                  enq_log, client, returncode, handlers, server,
                                  server_thread, is_rendering, exc_info,
                                  performing_cleanup, produced, expected, timer, runs,
                                  run_data, call, result, cancel_pc, terminate_calls,
                                  hist, fn_in, fn_out>>
              ELSE IF expected = 0
              THEN UNCHANGED <<impl, strict, init_keys, pc, queue, enq_count, enq_log,
                               client, returncode, handlers, server, server_thread,
                               is_rendering, exc_info, performing_cleanup, produced,
                               expected, progress, timer, runs, run_data, call, result,
                               cancel_pc, terminate_calls, hist, fn_in, fn_out>>
              ELSE /\ progress' = ProgressDafb(line[1], line[2])
                   /\ UNCHANGED <<impl, strict, init_keys, pc, queue, enq_count,
                                  enq_log, client, returncode, handlers, server,
                                  server_thread, is_rendering, exc_info,
                                  performing_cleanup, produced, expected, timer, runs,
                                  run_data, call, result, cancel_pc, terminate_calls,
                                  hist, fn_in, fn_out>>

\* The render counts the client announces ("Performing N renders.").
AnnouncedCounts == {2}

\* dafb _handle_set_expected_outputs
HandleSetExpectedOutputs ==
    /\ client # "none"
    /\ "set_expected_outputs" \in handlers
    /\ lines < MaxLines
    /\ pc # "terminated"
    /\ lines' = lines + 1
    /\ IF CheckForExceptionRaises
       THEN HandlerRaisesPending
       ELSE /\ \E n \in AnnouncedCounts : expected' = n
            /\ UNCHANGED <<impl, strict, init_keys, pc, queue, enq_count, enq_log,
                           client, returncode, handlers, server, server_thread,
                           is_rendering, exc_info, performing_cleanup, produced,
                           progress, timer, runs, run_data, call, result, cancel_pc,
                           terminate_calls, hist, fn_in, fn_out>>

\* A _handle_error that forgets the pending exception when a second error line
\* arrives.
HandleErrorToggles(old, line) == IF old = "None" THEN line ELSE "None"

\* self._exc_info = RuntimeError(f"Blender Encountered an Error: {match.group(0)}")
\* the new value of _exc_info, whatever the old one was.
HandleErrorSets(old, line) == line

\* _handle_error on a line that matches the error regex
HandleError ==
    /\ client # "none"
    /\ "error" \in handlers
    /\ lines < MaxLines
    /\ pc # "terminated"
    /\ lines' = lines + 1
    /\ exc_info' = HandleErrorSets(exc_info, NextErrorLine(exc_info))
    /\ hist' = [hist EXCEPT !.exc_in_wait = @ \/ (pc \in RunWaitPcs)]
    /\ UNCHANGED <<impl, strict, init_keys, pc, queue, enq_count, enq_log, client,
                   returncode, handlers, server, server_thread, is_rendering,
                   performing_cleanup, produced, expected, progress, timer, runs,
                   run_data, call, result, cancel_pc, terminate_calls, fn_in, fn_out>>

(***************************************************************************)
(* The client process.                                                     *)
(***************************************************************************)
\* The client asks the IPC server for the next action (ActionsQueue.dequeue_action)
\* and runs it; "close" runs BlenderClient.close, which quits Blender, so that
\* the client asks for nothing more.
ClientDequeue ==
    /\ client = "running"
    /\ server = "serving"
    /\ queue # <<>>
    /\ pc # "terminated"
    /\ queue' = Tail(queue)
    /\ client' = IF Head(queue).name = "close" THEN "closing" ELSE client
    /\ hist' = [hist EXCEPT
           !.after_close = IF call = "on_cleanup" /\ pc # "clean_enq" /\ @ = "none"
                           THEN Head(queue).name ELSE @,
           !.delivered = IF Head(queue).name = "close" THEN @ ELSE Head(queue).ticket]
    /\ UNCHANGED <<impl, strict, init_keys, pc, enq_count, enq_log, returncode,
                   handlers, server, server_thread, is_rendering, exc_info,
                   performing_cleanup, produced, expected, progress, timer, runs,
                   run_data, call, result, cancel_pc, terminate_calls, lines, fn_in,
                   fn_out>>

\* The process ends on its own: Blender quits after "close" (exit code 0), or
\* it crashes or is killed from outside.
ProcessExit ==
    /\ _blender_is_running
    /\ pc # "terminated"
    /\ client' = "exited"
    /\ \E code \in ExitCodes : returncode' = IF client = "closing" THEN 0 ELSE code
    /\ hist' = [hist EXCEPT
           !.exit_in_wait = IF pc \in RunWaitPcs /\ ~hist.complete_in_run
                            THEN "exit" ELSE @]
    /\ UNCHANGED <<impl, strict, init_keys, pc, queue, enq_count, enq_log, handlers,
                   server, server_thread, is_rendering, exc_info, performing_cleanup,
                   produced, expected, progress, timer, runs, run_data, call, result,
                   cancel_pc, terminate_calls, lines, fn_in, fn_out>>

(***************************************************************************)
(* on_cleanup                                                              *)
(***************************************************************************)
\* self._performing_cleanup = True
OnCleanupBegin ==
    /\ pc = "idle"
    /\ call' = "on_cleanup"
    /\ result' = NoResult
    /\ hist' = [NewCall(hist) EXCEPT !.exc_at_cleanup = exc_info # "None"]
    /\ performing_cleanup' = TRUE
    /\ pc' = "clean_enq"
    /\ UNCHANGED <<impl, strict, init_keys, queue, enq_count, enq_log, client,
                   returncode, handlers, server, server_thread, is_rendering, exc_info,
                   produced, expected, progress, timer, runs, run_data, cancel_pc,
                   terminate_calls, lines, fn_in, fn_out>>

\* enqueue_action(Action("close"), front=True); is_not_timed_out = _get_timer(...)
CleanEnqClose ==
    /\ pc = "clean_enq"
    /\ queue' = enqueue_action(queue, Action("close", enq_count + 1), TRUE)
    /\ enq_count' = enq_count + 1
    /\ enq_log' = Append(enq_log, "close")
    /\ hist' = [hist EXCEPT !.after_close = "none"]
    /\ timer' = "on"
    /\ pc' = "clean_chk_running"
    /\ UNCHANGED <<impl, strict, init_keys, client, returncode, handlers, server,
                   server_thread, is_rendering, exc_info, performing_cleanup, produced,
                   expected, progress, runs, run_data, call, result, cancel_pc,
                   terminate_calls, lines, fn_in, fn_out>>

\* while self._blender_is_running ...
CleanChkRunning ==
    /\ pc = "clean_chk_running"
    /\ pc' = IF _blender_is_running THEN "clean_chk_timer" ELSE "clean_post"
    /\ UNCHANGED <<impl, strict, init_keys, queue, enq_count, enq_log, client,
                   returncode, handlers, server, server_thread, is_rendering, exc_info,
                   performing_cleanup, produced, expected, progress, timer, runs,
                   run_data, call, result, cancel_pc, terminate_calls, lines, hist,
                   fn_in, fn_out>>

\* A wait of on_cleanup that goes on while the process runs, timeout or not.
CleanChkTimerForever ==
    /\ pc = "clean_chk_timer"
    /\ pc' = "clean_chk_running"
    /\ UNCHANGED <<impl, strict, init_keys, queue, enq_count, enq_log, client,
                   returncode, handlers, server, server_thread, is_rendering, exc_info,
                   performing_cleanup, produced, expected, progress, timer, runs,
                   run_data, call, result, cancel_pc, terminate_calls, lines, hist,
                   fn_in, fn_out>>

\* ... and is_not_timed_out(): time.sleep(0.1)
CleanChkTimer ==
    /\ pc = "clean_chk_timer"
    /\ pc' = IF timer = "on" THEN "clean_chk_running" ELSE "clean_post"
    /\ UNCHANGED <<impl, strict, init_keys, queue, enq_count, enq_log, client,
                   returncode, handlers, server, server_thread, is_rendering, exc_info,
                   performing_cleanup, produced, expected, progress, timer, runs,
                   run_data, call, result, cancel_pc, terminate_calls, lines, hist,
                   fn_in, fn_out>>

\* An on_cleanup that terminates the process whether it still runs or not.
CleanPostAlways ==
    /\ pc = "clean_post"
    /\ pc' = "clean_terminate"
    /\ timer' = "off"
    /\ UNCHANGED <<impl, strict, init_keys, queue, enq_count, enq_log, client,
                   returncode, handlers, server, server_thread, is_rendering, exc_info,
                   performing_cleanup, produced, expected, progress, runs, run_data,
                   call, result, cancel_pc, terminate_calls, lines, hist, fn_in, fn_out>>

\* An on_cleanup that never terminates the process.
CleanPostNoTerminate ==
    /\ pc = "clean_post"
    /\ pc' = "clean_end"
    /\ timer' = "off"
    /\ UNCHANGED <<impl, strict, init_keys, queue, enq_count, enq_log, client,
                   returncode, handlers, server, server_thread, is_rendering, exc_info,
                   performing_cleanup, produced, expected, progress, runs, run_data,
                   call, result, cancel_pc, terminate_calls, lines, hist, fn_in, fn_out>>

\* if self._blender_is_running and self._blender_client:
CleanPost ==
    /\ pc = "clean_post"
    /\ pc' = IF _blender_is_running THEN "clean_terminate" ELSE "clean_end"
    /\ timer' = "off"
    /\ UNCHANGED <<impl, strict, init_keys, queue, enq_count, enq_log, client,
                   returncode, handlers, server, server_thread, is_rendering, exc_info,
                   performing_cleanup, produced, expected, progress, runs, run_data,
                   call, result, cancel_pc, terminate_calls, lines, hist, fn_in, fn_out>>

\* A terminate that leaves the process alone.
TerminatedNot(c) == c

\* LoggingSubprocess.terminate: a process that still runs is stopped.
Terminated(c) == IF c \in {"running", "closing"} THEN "exited" ELSE c

\* self._blender_client.terminate()
CleanTerminate ==
    /\ pc = "clean_terminate"
    /\ client' = Terminated(client)
    /\ returncode' = IF _blender_is_running THEN KilledCode ELSE returncode
    /\ terminate_calls' = terminate_calls \cup {"terminate()"}
    /\ pc' = "clean_end"
    /\ UNCHANGED <<impl, strict, init_keys, queue, enq_count, enq_log, handlers, server,
                   server_thread, is_rendering, exc_info, performing_cleanup, produced,
                   expected, progress, timer, runs, run_data, call, result, cancel_pc,
                   lines, hist, fn_in, fn_out>>

\* An on_cleanup that returns with the performing-cleanup flag still set.
CleanEndKeepsFlag ==
    /\ pc = "clean_end"
    /\ server' \in (IF server = "none" THEN {server}
                    ELSE IF server = "starting" THEN {server, "shutdown"}
                    ELSE {"shutdown"})
    /\ server_thread' \in (IF server_thread THEN BOOLEAN ELSE {FALSE})
    /\ performing_cleanup' = performing_cleanup
    /\ result' = Returned
    /\ pc' = "terminated"
    /\ enq_log' = <<>>
    /\ UNCHANGED <<impl, strict, init_keys, queue, enq_count, client, returncode,
                   handlers, is_rendering, exc_info, produced, expected, progress,
                   timer, runs, run_data, call, cancel_pc, terminate_calls, lines, hist,
                   fn_in, fn_out>>

\* if self._server: self._server.shutdown(); the bounded join of the server
\* thread, which may still be alive afterwards (that is only logged);
\* self._performing_cleanup = False, and on_cleanup returns.
CleanEnd ==
    /\ pc = "clean_end"
    /\ server' \in (IF server = "none" THEN {server}
                    ELSE IF server = "starting" THEN {server, "shutdown"}
                    ELSE {"shutdown"})
    /\ server_thread' \in (IF server_thread THEN BOOLEAN ELSE {FALSE})
    /\ performing_cleanup' = FALSE
    /\ result' = Returned
    /\ pc' = "terminated"
    /\ enq_log' = <<>>
    /\ UNCHANGED <<impl, strict, init_keys, queue, enq_count, client, returncode,
                   handlers, is_rendering, exc_info, produced, expected, progress,
                   timer, runs, run_data, call, cancel_pc, terminate_calls, lines, hist,
                   fn_in, fn_out>>

(***************************************************************************)
(* on_cancel, called on a thread of its own                                *)
(***************************************************************************)
\* An on_cancel that goes on to terminate whatever the process does.
OnCancelCheckAlways ==
    /\ cancel_pc = "idle"
    /\ pc # "terminated"
    /\ cancel_pc' = "cancel_terminate"
    /\ UNCHANGED <<impl, strict, init_keys, pc, queue, enq_count, enq_log, client,
                   returncode, handlers, server, server_thread, is_rendering, exc_info,
                   performing_cleanup, produced, expected, progress, timer, runs,
                   run_data, call, result, terminate_calls, lines, hist, fn_in, fn_out>>

\* if not self._blender_client or not self._blender_is_running: return
OnCancelCheck ==
    /\ cancel_pc = "idle"
    /\ pc # "terminated"
    /\ cancel_pc' = IF _blender_is_running THEN "cancel_terminate" ELSE "idle"
    /\ UNCHANGED <<impl, strict, init_keys, pc, queue, enq_count, enq_log, client,
                   returncode, handlers, server, server_thread, is_rendering, exc_info,
                   performing_cleanup, produced, expected, progress, timer, runs,
                   run_data, call, result, terminate_calls, lines, hist, fn_in, fn_out>>

\* An on_cancel that terminates with the default grace period.
OnCancelTerminateGraceful ==
    /\ cancel_pc = "cancel_terminate"
    /\ client' = Terminated(client)
    /\ returncode' = IF _blender_is_running THEN KilledCode ELSE returncode
    /\ terminate_calls' = terminate_calls \cup {"terminate()"}
    /\ cancel_pc' = "idle"
    /\ UNCHANGED <<impl, strict, init_keys, pc, queue, enq_count, enq_log, handlers,
                   server, server_thread, is_rendering, exc_info, performing_cleanup,
                   produced, expected, progress, timer, runs, run_data, call, result,
                   lines, hist, fn_in, fn_out>>

\* self._blender_client.terminate(grace_time_s=0)
OnCancelTerminate ==
    /\ cancel_pc = "cancel_terminate"
    /\ client' = Terminated(client)
    /\ returncode' = IF _blender_is_running THEN KilledCode ELSE returncode
    /\ terminate_calls' = terminate_calls \cup {"terminate(grace_time_s=0)"}
    /\ hist' = [hist EXCEPT
           !.exit_in_wait = IF pc \in RunWaitPcs /\ _blender_is_running
                            THEN "cancel" ELSE @]
    /\ cancel_pc' = "idle"
    /\ UNCHANGED <<impl, strict, init_keys, pc, queue, enq_count, enq_log, handlers,
                   server, server_thread, is_rendering, exc_info, performing_cleanup,
                   produced, expected, progress, timer, runs, run_data, call, result,
                   lines, fn_in, fn_out>>

(***************************************************************************)
(* The specification                                                       *)
(***************************************************************************)
OnStart ==
    \/ OnStartBegin \/ WaitForServerOk \/ WaitForServerFail \/ PopulateActionQueue
    \/ StartBlenderClient \/ StartBlenderClientNotFound
    \/ StartChkRunning \/ StartChkExc \/ StartChkLen \/ StartChkTimer
    \/ StartTelemetry \/ StartPostLen \/ StartPostTimer

OnRun ==
    \/ OnRunBegin \/ RunEnqCamera \/ RunValidate \/ RunResetProduced
    \/ RunSetExpected \/ RunSetRendering \/ RunEnqFirst \/ RunEnqKeys
    \/ RunEnqStart \/ RunChkRunning \/ RunChkRendering \/ RunChkExc \/ RunPost

OnCleanup ==
    \/ OnCleanupBegin \/ CleanEnqClose \/ CleanChkRunning \/ CleanChkTimer
    \/ CleanPost \/ CleanTerminate \/ CleanEnd

OnCancel == OnCancelCheck \/ OnCancelTerminate

Handlers ==
    HandleComplete \/ HandleProgress \/ HandleSetExpectedOutputs \/ HandleError

Environment == ServerPublish \/ ClientDequeue \/ ProcessExit \/ TimerExpires

Next == OnStart \/ OnRun \/ OnCleanup \/ OnCancel \/ Handlers \/ Environment

Spec == Init /\ [][Next]_vars

\* The controlling thread never stops in the middle of on_run: once a step of
\* on_run is possible it is eventually taken.
FairSpec == Spec /\ WF_vars(OnRun)

\* The controlling thread never stops in the middle of on_cleanup, and time
\* passes: a timer that runs reaches its timeout.
CleanupFairSpec == Spec /\ WF_vars(OnCleanup) /\ WF_vars(TimerExpires)

(***************************************************************************)
(* Properties                                                              *)
(***************************************************************************)
\* on_start is in progress and has populated the action queue.
OnStartEnqueued == call = "on_start" /\ enq_log # <<>>

\* The commands that select the render engine.
RendererCommands == {"render_engine", "renderer"}

\* The commands that open the scene.
OpenCommands == {"scene_file", "scene"}

\* The optional configuration commands.
InitKeyCommands == Range(_BLENDER_INIT_KEYS)

OnStartEndedDead ==
    call = "on_start" /\ pc = "idle" /\ hist.loop_exit = "dead"

\* C2 as stated: when on_start's wait finds the process not running with
\* commands still queued, on_start raises the RuntimeError about the
\* initialization actions and never the TimeoutError.
C2_DeadNeverTimeout ==
    (OnStartEndedDead /\ result.kind # "returned") => result.kind = "RuntimeError_init"

\* C2, witness of the other half: the wait ended on the timer with commands
\* still queued and on_start raised the TimeoutError.
C2_Witness ==
    /\ call = "on_start" /\ pc = "idle"
    /\ hist.loop_exit = "timeout"
    /\ result.kind = "TimeoutError"

\* on_run has ended, and the process ended on its own during the wait before
\* a completion cleared the rendering flag.
OnRunEndedAfterExit ==
    call = "on_run" /\ pc = "idle" /\ hist.exit_in_wait = "exit"

\* C3: if the process exits during on_run's wait before the completion is
\* handled, on_run never returns normally: it raises the "exited early" error
\* with the process's exit code, or the fatal-pattern exception that was
\* pending at its poll.
C3_ExitNeverReturns ==
    OnRunEndedAfterExit =>
        \/ /\ result.kind = "exited_early"
           /\ result.code = returncode
           /\ returncode \in ExitCodes
        \/ /\ result.kind = "pending_exception"
           /\ result.line \in Range(ErrorLines)
           /\ strict

\* C3, witness: a progress line was handled, the process exited in the wait,
\* and on_run raised "exited early" with the exit code.
C3_Witness ==
    /\ OnRunEndedAfterExit
    /\ progress \notin {<<0, 1>>, <<100, 1>>}
    /\ result.kind = "exited_early"
    /\ result.code \in ExitCodes

\* C3 as stated: in that case on_run always raises the "exited early" error.
C3_ExitAlwaysExitedEarly ==
    OnRunEndedAfterExit => result.kind = "exited_early"

\* C4: an on_cleanup that began with an exception pending never raises; it
\* runs to its end and the process is not running when it returns.
C4_CleanupCompletes ==
    (call = "on_cleanup" /\ hist.exc_at_cleanup) =>
        /\ result.kind \in {"none", "returned"}
        /\ pc = "terminated" => (result = Returned /\ ~_blender_is_running)

\* C4, witness: on_cleanup returned after an on_run, having begun with an
\* exception pending and having had to terminate the process.
C4_Witness ==
    /\ call = "on_cleanup" /\ pc = "terminated"
    /\ hist.exc_at_cleanup
    /\ runs > 0
    /\ "terminate()" \in terminate_calls

\* C5: commands are delivered in the order they were enqueued (what is queued
\* is in ticket order and is newer than everything delivered), except that
\* "close" is at the head of the queue from the moment on_cleanup enqueues it,
\* so that the first delivery after that is "close".
C5_FifoExceptClose ==
    /\ \A i \in 1..Len(queue) : queue[i].name = "close" => i = 1
    /\ \A i, j \in 1..Len(queue) :
          (i < j /\ queue[i].name # "close") => queue[i].ticket < queue[j].ticket
    /\ \A i \in 1..Len(queue) :
          queue[i].name # "close" => queue[i].ticket > hist.delivered
    /\ hist.after_close \in {"none", "close"}

\* C5, witness: "close" was delivered while commands of an interrupted call
\* were still queued.
C5_Witness ==
    /\ hist.after_close = "close"
    /\ queue # <<>>
    /\ hist.delivered > 0

\* C6 as stated: the pending exception keeps the first matched line; a second
\* match does not overwrite it.
C6_FirstMatchKept == exc_info \in {"None", ErrorLines[1]}

\* C7 as stated: no handler run by the output-reading thread ever raises the
\* pending exception.
C7_ReaderNeverRaises == ~hist.reader_raised

\* C8 as stated: if the fatal-pattern handler sets the pending exception while
\* on_run is in its wait, that on_run call does not return normally.
C8_FatalInWaitRaises ==
    (call = "on_run" /\ pc = "idle" /\ hist.exc_in_wait) => result.kind # "returned"

\* C8, witness: the exception was set during the wait and on_run raised it.
C8_Witness ==
    /\ call = "on_run" /\ pc = "idle"
    /\ hist.exc_in_wait
    /\ result.kind = "pending_exception"

\* The state the completion and progress handlers write.
TaskState == <<is_rendering, produced, expected, progress>>

\* C9: a handler given a line while an exception is pending and cleanup is not
\* in progress leaves is_rendering, the output counters and the progress
\* unchanged; while on_cleanup is in progress no handler is stopped by the
\* pending exception.
C9_HandlersFrame ==
    [][lines' # lines =>
          /\ (exc_info # "None" /\ ~performing_cleanup) => UNCHANGED TaskState
          /\ performing_cleanup => hist'.reader_raised = hist.reader_raised]_vars

\* C9, witness: a completion or progress line arrived while the exception was
\* pending outside cleanup, and the render is still marked active.
C9_Witness ==
    /\ exc_info # "None"
    /\ ~performing_cleanup
    /\ hist.reader_raised
    /\ is_rendering

\* on_run has ended, and on_cancel terminated the process during the wait.
OnRunEndedAfterCancel ==
    call = "on_run" /\ pc = "idle" /\ hist.exit_in_wait = "cancel"

\* on_run is still in its wait, or at the check that follows it, after
\* on_cancel terminated the process during the wait.
WaitingAfterCancel ==
    /\ pc \in RunWaitPcs \cup {"run_post"}
    /\ hist.exit_in_wait = "cancel"

\* C10: on_cancel during on_run's wait terminates the running process; the
\* process is not running afterwards; on_run does not stay in its wait
\* forever, and it ends by raising the "exited early" error or the
\* fatal-pattern exception that was pending at its poll.
C10_CancelEndsRun ==
    /\ []("terminate(grace_time_s=0)" \in terminate_calls => ~_blender_is_running)
    /\ [](OnRunEndedAfterCancel =>
             \/ result.kind = "exited_early" /\ result.code = KilledCode
             \/ result.kind = "pending_exception" /\ strict)
    /\ []<>(~WaitingAfterCancel)

\* C10, witness: the cancel arrived in the wait and on_run raised "exited early".
C10_Witness ==
    /\ OnRunEndedAfterCancel
    /\ result.kind = "exited_early"

\* C10 as stated: after such a cancel on_run always raises "exited early".
C10_CancelAlwaysExitedEarly ==
    OnRunEndedAfterCancel => result.kind = "exited_early"

\* The terminate call on_cancel makes.
CancelTerminate == "terminate(grace_time_s=0)"

\* C11: from a state in which the process is not running and no on_cancel is
\* under way, a call of on_cancel is a step that changes nothing, and no step
\* puts the cancel thread on its way to terminate or makes its terminate call.
C11_CancelNotRunningNoOp ==
    [][(cancel_pc = "idle" /\ ~_blender_is_running) =>
          /\ cancel_pc' = "idle"
          /\ CancelTerminate \in terminate_calls' => CancelTerminate \in terminate_calls
          /\ OnCancel => UNCHANGED vars]_vars

\* C11, witness: on_cancel can be called with a process that has exited and
\* with no on_cancel having terminated anything.
C11_Witness ==
    /\ ENABLED OnCancelCheck
    /\ client = "exited"
    /\ cancel_pc = "idle"
    /\ CancelTerminate \notin terminate_calls

\* C12: on_cancel, having found the process running, makes exactly the call
\* terminate(grace_time_s=0), after which the process is not running; no step
\* of on_cancel enqueues anything, the step that terminates is never blocked,
\* and a terminate with the default grace period is only made by on_cleanup.
C12_CancelTerminatesAtOnce ==
    /\ [](cancel_pc = "cancel_terminate" => ENABLED OnCancelTerminate)
    /\ [][OnCancel => UNCHANGED <<queue, enq_count, enq_log>>]_vars
    /\ [][(cancel_pc = "cancel_terminate" /\ cancel_pc' = "idle") =>
             /\ terminate_calls' = terminate_calls \cup {CancelTerminate}
             /\ ~_blender_is_running']_vars
    /\ [][("terminate()" \in terminate_calls' /\ "terminate()" \notin terminate_calls)
             => pc = "clean_terminate"]_vars

\* C12, witness: on_cancel terminated a running process, which then carries
\* the return code of a kill.
C12_Witness ==
    /\ CancelTerminate \in terminate_calls
    /\ "terminate()" \notin terminate_calls
    /\ returncode = KilledCode
    /\ client = "exited"

\* on_run has ended.
OnRunEnded == call = "on_run" /\ pc = "idle"

\* The ways on_run can end by raising.
RunErrors ==
    {"BlenderNotRunningError", "ValidationError", "pending_exception", "exited_early"}

\* C13: on_run returns normally only when _handle_complete cleared the
\* rendering flag after this call set it and the process was running at the
\* check that follows the wait; every other end of on_run is a raise.
C13_NoSilentSuccess ==
    /\ []((OnRunEnded /\ result = Returned) =>
             hist.complete_in_run /\ ~is_rendering)
    /\ []((OnRunEnded /\ result # Returned) => result.kind \in RunErrors)
    /\ [][(call' = "on_run" /\ pc # "idle" /\ pc' = "idle" /\ result' = Returned) =>
             pc = "run_post" /\ _blender_is_running]_vars

\* C13, witness: on_run returned normally after the completion was handled.
C13_Witness ==
    /\ OnRunEnded
    /\ result = Returned
    /\ hist.complete_in_run
    /\ progress = Percent(100)

\* C14 as stated: when on_run comes to validate task data that fails the
\* schema, it has enqueued nothing yet.
C14_ValidateBeforeEnqueue ==
    (pc = "run_validate" /\ ~run_data.valid) => enq_log = <<>>

\* C14, witness: an on_run whose task data failed the schema raised the
\* validation error having enqueued nothing (the dafb adaptor).
C14_Witness ==
    /\ OnRunEnded
    /\ result.kind = "ValidationError"
    /\ impl = "dafb"
    /\ \A i \in 1..Len(queue) : queue[i].name \notin {"scene", "start_render"}

\* What on_run writes besides its own position and result.
RunEffects == <<queue, enq_count, enq_log, is_rendering, produced, expected, progress, exc_info>>

\* C15: an on_run that is called while the process is not running ends at once
\* with BlenderNotRunningError: it enqueues nothing, never reaches the
\* validation, and leaves the rendering flag and the output counters as they
\* were.
C15_NotRunningRaisesAtOnce ==
    [][(runs' # runs /\ ~_blender_is_running) =>
          /\ pc' = "idle"
          /\ result' = Raised("BlenderNotRunningError")
          /\ UNCHANGED RunEffects]_vars

\* C15, witness: on_run was called after the process had exited and raised
\* BlenderNotRunningError.
C15_Witness ==
    /\ OnRunEnded
    /\ result.kind = "BlenderNotRunningError"
    /\ client = "exited"

\* The commands on_run has enqueued once it waits: scene first, one command
\* for each optional key of run_data in between, start_render last.
SceneKeysThenStart ==
    /\ Len(enq_log) = Cardinality(run_data.keys) + 2
    /\ enq_log[1] = "scene"
    /\ enq_log[Len(enq_log)] = "start_render"
    /\ {enq_log[i] : i \in 2..(Len(enq_log) - 1)} = run_data.keys

\* C16 as stated: every on_run that waits for its render has enqueued scene
\* first, one command for each optional key present, and start_render last.
C16_SceneKeysThenStart ==
    (call = "on_run" /\ pc \in RunWaitPcs) => SceneKeysThenStart

\* C16, amended: an on_run of the dafb adaptor that waits for its render has
\* enqueued scene first, one command for each optional key present (none for
\* an absent key) and start_render last; an on_run of the deadline adaptor
\* has enqueued one camera command and then start_render, and no scene
\* command.  In both, nothing is enqueued by the call after start_render.
C16_StartRenderLast ==
    /\ []((call = "on_run" /\ pc \in RunWaitPcs) =>
            IF impl = "dafb" THEN SceneKeysThenStart
            ELSE enq_log = <<"camera", "start_render">>)
    /\ [][(call = "on_run" /\ "start_render" \in Range(enq_log)) =>
            (enq_log' = enq_log \/ enq_log' = <<>>)]_vars

\* C16, witness: an on_run of the dafb adaptor waits having enqueued four
\* commands (two optional keys present).
C16_Witness ==
    /\ call = "on_run"
    /\ pc \in RunWaitPcs
    /\ impl = "dafb"
    /\ Len(enq_log) = 4
    /\ enq_log[1] = "scene"
    /\ enq_log[4] = "start_render"

ServerInitError == Raised("RuntimeError_server")

\* C17: on_start starts the process only once the server has published its
\* address; its wait for the address ends either with the address available
\* or, the server start timeout elapsed with no address, by raising the
\* RuntimeError 'server did not finish initializing'; in that case the process
\* was never started and no command was enqueued.
C17_ServerBeforeProcess ==
    /\ [][(client = "none" /\ client' # "none") => server = "serving"]_vars
    /\ [][(pc = "start_wait_server" /\ pc' # pc) =>
            \/ server = "serving" /\ pc' = "start_populate" /\ result' = NoResult
            \/ server # "serving" /\ timer = "expired" /\ pc' = "idle" /\ result' = ServerInitError]_vars
    /\ []((call = "on_start" /\ result = ServerInitError) =>
            client = "none" /\ queue = <<>> /\ enq_count = 0)
    /\ []((call = "on_start" /\ enq_count > 0) => server = "serving")

\* C17, witness: on_start raised the server error with the server still
\* starting, no process and an empty queue.
C17_Witness ==
    /\ call = "on_start"
    /\ pc = "idle"
    /\ result = ServerInitError
    /\ server = "starting"
    /\ client = "none"
    /\ queue = <<>>

\* C18: the error callback is among the registered callbacks exactly when
\* strict_error_checking is true; with it false or absent the pending
\* exception is never set, and neither on_start nor on_run ever ends by
\* raising it.
C18_ErrorRuleIffStrict ==
    /\ [](client # "none" => ("error" \in handlers <=> strict))
    /\ [](~strict => exc_info = "None" /\ ~ENABLED HandleError)
    /\ [](~strict => result.kind # "pending_exception")

\* C18, witness: with strict_error_checking false the process runs without the
\* error callback, output lines have been handled, and on_run has returned.
C18_Witness ==
    /\ ~strict
    /\ "error" \notin handlers
    /\ "complete" \in handlers
    /\ lines = MaxLines
    /\ OnRunEnded
    /\ result = Returned

\* on_cleanup has been called and has not returned.
InCleanup == call = "on_cleanup" /\ pc # "terminated"

\* C19: every on_cleanup comes to its end and returns without raising,
\* whatever the process and the server thread do and whether or not a process
\* or a server was started: a process that still runs when the wait ends is
\* terminated, and nothing in on_cleanup depends on the server thread having
\* stopped.
C19_CleanupAlwaysReturns ==
    /\ []<>(~InCleanup)
    /\ [](call = "on_cleanup" => result \in {NoResult, Returned})
    /\ []((call = "on_cleanup" /\ pc = "terminated") =>
            result = Returned /\ ~_blender_is_running)
    /\ [][(pc = "clean_chk_timer" /\ timer = "expired") => pc' # "clean_chk_running"]_vars
    /\ [][(pc = "clean_post" /\ pc' # pc /\ _blender_is_running) => pc' = "clean_terminate"]_vars

\* C19, witness: on_cleanup returned after it had to terminate the process,
\* with the server thread still alive.
C19_Witness ==
    /\ call = "on_cleanup"
    /\ pc = "terminated"
    /\ result = Returned
    /\ "terminate()" \in terminate_calls
    /\ server_thread

\* C20: the performing-cleanup flag is true exactly while on_cleanup executes:
\* the step that enters on_cleanup sets it and changes nothing else of the
\* adaptor, the step that ends on_cleanup clears it, and outside on_cleanup a
\* pending exception is never suppressed.
C20_FlagOnlyInCleanup ==
    /\ [](performing_cleanup <=> InCleanup)
    /\ [][(~InCleanup /\ InCleanup') =>
            /\ performing_cleanup'
            /\ UNCHANGED <<queue, enq_count, client, server, server_thread, exc_info>>]_vars
    /\ [][(InCleanup /\ ~InCleanup') => (pc = "clean_end" /\ ~performing_cleanup')]_vars
    /\ [](~InCleanup => (HasExceptionRaises <=> exc_info # "None"))

\* C20, witness: on_cleanup has returned from a session with an exception
\* pending, and the flag is false again.
C20_Witness ==
    /\ call = "on_cleanup"
    /\ pc = "terminated"
    /\ result = Returned
    /\ exc_info # "None"
    /\ ~performing_cleanup

(***************************************************************************)
(* _handle_progress as a function of the matched line and the counters.    *)
(***************************************************************************)
MaxTotal == 4           \* largest sample count of a progress line
MaxOutputs == 3         \* largest expected number of outputs

\* The capture groups <<done, total>> of a line the progress regexes match.
ProgressInputs == {in \in (0..MaxTotal) \X (0..MaxTotal) : in[1] <= in[2]}

\* An adaptor whose counters hold any produced < expected (the deadline
\* adaptor has no counters: one output, none produced), about to handle a
\* progress line.
ProgressInit ==
    /\ impl \in Impls
    /\ strict = FALSE
    /\ init_keys = {}
    /\ Constructed
    /\ expected \in (IF impl = "dafb" THEN 1..MaxOutputs ELSE {1})
    /\ produced \in 0..(expected - 1)
    /\ fn_in \in ProgressInputs
    /\ fn_out = <<>>

\* _handle_progress(match): int(done) / int(total) raises ZeroDivisionError
\* for total = 0; otherwise update_status(progress=...).
HandleProgressLine ==
    /\ fn_out = <<>>
    /\ IF fn_in[2] = 0
       THEN /\ fn_out' = <<"ZeroDivisionError">>
            /\ UNCHANGED <<impl, strict, init_keys, pc, queue, enq_count, enq_log,
                           client, returncode, handlers, server, server_thread,
                           is_rendering, exc_info, performing_cleanup, produced,
                           expected, progress, timer, runs, run_data, call, result,
                           cancel_pc, terminate_calls, lines, hist, fn_in>>
       ELSE /\ fn_out' = <<"update_status">>
            /\ progress' = IF impl = "deadline"
                           THEN ProgressDeadline(fn_in[1], fn_in[2])
                           ELSE ProgressDafb(fn_in[1], fn_in[2])
            /\ UNCHANGED <<impl, strict, init_keys, pc, queue, enq_count, enq_log,
                           client, returncode, handlers, server, server_thread,
                           is_rendering, exc_info, performing_cleanup, produced,
                           expected, timer, runs, run_data, call, result, cancel_pc,
                           terminate_calls, lines, hist, fn_in>>

ProgressSpec == ProgressInit /\ [][HandleProgressLine]_vars

\* 100 * (unit_index + done/total) / N as the fraction num/den, not reduced.
ExactNum == 100 * (produced * fn_in[2] + fn_in[1])
ExactDen == fn_in[2] * expected

\* The progress line has been handled.
ProgressHandled == fn_out # <<>>

MaxEnqueued == 3        \* commands enqueued in the process

Instances == {"first", "second"}

\* self._action_queue of the instance i: the attribute of the class.
ActionQueueOf(i) == queue

\* A process that has constructed no adaptor yet; only the class exists.
InstancesInit ==
    /\ impl \in Impls
    /\ strict = FALSE
    /\ init_keys = {}
    /\ Constructed
    /\ produced = 0
    /\ expected = 0
    /\ fn_in = {}
    /\ fn_out = [i \in Instances |-> {}]

\* BlenderAdaptor(init_data): fn_in holds the instances constructed so far.
ConstructAdaptor ==
    \E i \in Instances \ fn_in :
        /\ fn_in' = fn_in \cup {i}
        /\ UNCHANGED <<impl, strict, init_keys, pc, queue, enq_count, enq_log, client,
                       returncode, handlers, server, server_thread, is_rendering,
                       exc_info, performing_cleanup, produced, expected, progress,
                       timer, runs, run_data, call, result, cancel_pc, terminate_calls,
                       lines, hist, fn_out>>

\* self._action_queue.enqueue_action(...) in a method of the instance i;
\* fn_out[i] holds the tickets of the commands enqueued through i.
EnqueueThrough ==
    \E i \in fn_in, name \in {"camera", "start_render"} :
        /\ enq_count < MaxEnqueued
        /\ queue' = enqueue_action(ActionQueueOf(i), Action(name, enq_count + 1), FALSE)
        /\ enq_count' = enq_count + 1
        /\ fn_out' = [fn_out EXCEPT ![i] = @ \cup {enq_count + 1}]
        /\ UNCHANGED <<impl, strict, init_keys, pc, enq_log, client, returncode,
                       handlers, server, server_thread, is_rendering, exc_info,
                       performing_cleanup, produced, expected, progress, timer, runs,
                       run_data, call, result, cancel_pc, terminate_calls, lines, hist,
                       fn_in>>

\* The client of the instance i asks its server, AdaptorServer(self._action_queue,
\* self), for the next command.
DequeueThrough ==
    \E i \in fn_in :
        /\ ActionQueueOf(i) # <<>>
        /\ queue' = Tail(ActionQueueOf(i))
        /\ UNCHANGED <<impl, strict, init_keys, pc, enq_count, enq_log, client,
                       returncode, handlers, server, server_thread, is_rendering,
                       exc_info, performing_cleanup, produced, expected, progress,
                       timer, runs, run_data, call, result, cancel_pc, terminate_calls,
                       lines, hist, fn_in, fn_out>>

InstancesNext == ConstructAdaptor \/ EnqueueThrough \/ DequeueThrough

InstancesSpec == InstancesInit /\ [][InstancesNext]_vars

\* C22 as stated: every command observable through an adaptor instance was
\* enqueued through that instance, so that a newly constructed adaptor sees an
\* empty queue.
C22_QueuePerInstance ==
    \A i \in fn_in :
        \A k \in 1..Len(ActionQueueOf(i)) : ActionQueueOf(i)[k].ticket \in fn_out[i]

\* C22, witness: with a single adaptor in the process the queue holds what was
\* enqueued through it.
C22_Witness ==
    /\ fn_in = {"first"}
    /\ Len(ActionQueueOf("first")) = 2
    /\ fn_out["first"] = {1, 2}

\* C23: on_cleanup calls terminate() exactly when it reads the process still
\* running after its wait has ended, which can only be with the cleanup
\* timeout elapsed; a process that is no longer running (it exited on its own
\* within the timeout, or was not running at entry) is never terminated by
\* on_cleanup, and for a process not running the wait ends at its first check.
C23_TerminateIffStillRunning ==
    /\ []((pc = "clean_post" /\ _blender_is_running) => timer = "expired")
    /\ [][(pc = "clean_post" /\ pc' # pc) =>
            (pc' = "clean_terminate" <=> _blender_is_running)]_vars
    /\ [][(pc = "clean_terminate" /\ pc' # pc) => "terminate()" \in terminate_calls']_vars
    /\ [][("terminate()" \in terminate_calls' /\ "terminate()" \notin terminate_calls) =>
            (pc = "clean_terminate" /\ pc' = "clean_end")]_vars
    /\ [][(~_blender_is_running /\ pc # "clean_terminate") => pc' # "clean_terminate"]_vars
    /\ [][(pc = "clean_chk_running" /\ pc' # pc /\ ~_blender_is_running) =>
            pc' = "clean_post"]_vars

\* C23, witness: on_cleanup has terminated a process that was still running
\* after the timeout; the process had not dequeued the close command.
C23_Witness ==
    /\ pc = "clean_end"
    /\ "terminate()" \in terminate_calls
    /\ returncode = KilledCode
    /\ client = "exited"
    /\ queue # <<>>
    /\ Head(queue).name = "close"

(***************************************************************************)
(* main() of blender_client.py, as a function of the environment variable  *)
(* and of the paths that exist.                                            *)
(***************************************************************************)
ServerPaths == {"/tmp/a", "/tmp/b", "/tmp/c"}

\* os.environ.get(...): None when the variable is unset.
EnvValues == {"None", ""} \cup ServerPaths

\* The process starts main() with some value of the variable and some paths
\* in existence.
ClientMainInit ==
    /\ impl \in Impls
    /\ strict = FALSE
    /\ init_keys = {}
    /\ Constructed
    /\ produced = 0
    /\ expected = 0
    /\ fn_in \in [env : EnvValues, exists : SUBSET ServerPaths]
    /\ fn_out = <<>>

\* A main() that does not look whether the path exists.
MainOutcomeUnchecked(env, exists) ==
    IF env \in {"None", ""}
    THEN [raised |-> "OSError", client |-> "None", polls |-> 0]
    ELSE [raised |-> "None", client |-> env, polls |-> 1]

\* main(): if not server_path: raise OSError; if not os.path.exists(server_path):
\* raise OSError; client = BlenderClient(server_path); client.poll()
MainOutcome(env, exists) ==
    IF env \in {"None", ""}
    THEN [raised |-> "OSError", client |-> "None", polls |-> 0]
    ELSE IF env \notin exists
    THEN [raised |-> "OSError", client |-> "None", polls |-> 0]
    ELSE [raised |-> "None", client |-> env, polls |-> 1]

ClientMain ==
    /\ fn_out = <<>>
    /\ fn_out' = <<MainOutcome(fn_in.env, fn_in.exists)>>
    /\ UNCHANGED <<impl, strict, init_keys, pc, queue, enq_count, enq_log, client,
                   returncode, handlers, server, server_thread, is_rendering, exc_info,
                   performing_cleanup, produced, expected, progress, timer, runs,
                   run_data, call, result, cancel_pc, terminate_calls, lines, hist,
                   fn_in>>

ClientMainSpec == ClientMainInit /\ [][ClientMain]_vars

\* C24: main raises OSError, constructs no client and never polls when the
\* variable is unset or empty or names a path that does not exist; otherwise
\* it constructs the client with the value of the variable and polls once.
C24_MainChecksServerPath ==
    fn_out # <<>> =>
        IF fn_in.env \in {"None", ""} \/ fn_in.env \notin fn_in.exists
        THEN /\ fn_out[1].raised = "OSError"
             /\ fn_out[1].client = "None"
             /\ fn_out[1].polls = 0
        ELSE /\ fn_out[1].raised = "None"
             /\ fn_out[1].client = fn_in.env
             /\ fn_out[1].polls = 1

\* C24, witness: main has raised for a variable that names a path which does
\* not exist while other paths do.
C24_Witness ==
    /\ fn_in.env = "/tmp/a"
    /\ fn_in.exists = {"/tmp/b", "/tmp/c"}
    /\ fn_out = <<[raised |-> "OSError", client |-> "None", polls |-> 0]>>

\* A step in which the dafb adaptor counts a completion line.
CompletionCounted == impl = "dafb" /\ lines' # lines /\ produced' # produced

\* C25: in the dafb adaptor a handled completion line increments the produced
\* count by exactly one; the rendering flag is cleared and 100% is reported in
\* that step exactly when the new count equals the expected count, and the
\* flag is cleared in no other step.
C25_CompleteAtExpectedCount ==
    /\ [][CompletionCounted =>
            /\ produced' = produced + 1
            /\ UNCHANGED expected
            /\ produced' = expected => (~is_rendering' /\ progress' = Percent(100))
            /\ produced' # expected => UNCHANGED <<is_rendering, progress>>]_vars
    /\ [][(impl = "dafb" /\ is_rendering /\ ~is_rendering') =>
            (CompletionCounted /\ produced' = expected)]_vars

\* C25, witness: on_run waits with two outputs announced and one completion
\* line counted; the rendering flag is still set and 100% was not reported.
C25_Witness ==
    /\ impl = "dafb"
    /\ pc \in RunWaitPcs
    /\ expected = 2
    /\ produced = 1
    /\ is_rendering
    /\ progress # Percent(100)

\* C27 as stated: the assertion of the completion handler never fails: when a
\* completion line is counted the produced count does not pass the expected
\* count.
C27_AssertNeverFails ==
    [][CompletionCounted => produced' <= expected']_vars

\* C27, witness: a completion line counted during on_run's wait, with the
\* assertion holding (one produced of one expected).
C27_Witness ==
    /\ impl = "dafb"
    /\ pc \in RunWaitPcs
    /\ expected = 1
    /\ produced = 1
    /\ ~is_rendering

(***************************************************************************)
(* One on_run of the dafb adaptor with the Cycles handler: fn_in is the     *)
(* use flag of each view layer of the selected scene.                      *)
(***************************************************************************)
MaxLayers == 4          \* view layers of the scene

ViewLayers == UNION {[1..n -> BOOLEAN] : n \in 1..MaxLayers}

\* for layer in scene.view_layers: if layer.use: num_outputs += 1
NumUsed(layers) == Cardinality({i \in DOMAIN layers : layers[i]})

\* set_scene: if num_outputs > 1: num_outputs = len(scene.view_layers); print(
\* "... Performing {num_outputs} renders."); 0 stands for no line printed.
CyclesAnnounced(layers) == IF NumUsed(layers) > 1 THEN Len(layers) ELSE 0

\* The renders of one frame: Cycles renders the layers marked for rendering,
\* and a scene with none still produces one render.
CyclesRenders(layers) == IF NumUsed(layers) = 0 THEN 1 ELSE NumUsed(layers)

CyclesInit ==
    /\ impl = "dafb"
    /\ strict = FALSE
    /\ init_keys = {}
    /\ Constructed
    /\ produced = 0
    /\ expected = 0
    /\ fn_in \in ViewLayers
    /\ fn_out = [phase |-> "on_run", announced |-> 0, rendered |-> 0]

\* on_run: _produced_outputs = 0; _expected_outputs = 1; _is_rendering = True;
\* the scene and start_render commands are enqueued.
CyclesRunStarts ==
    /\ fn_out.phase = "on_run"
    /\ produced' = 0
    /\ expected' = 1
    /\ is_rendering' = TRUE
    /\ fn_out' = [fn_out EXCEPT !.phase = "scene"]
    /\ UNCHANGED <<impl, strict, init_keys, pc, queue, enq_count, enq_log, client,
                   returncode, handlers, server, server_thread, exc_info,
                   performing_cleanup, progress, timer, runs, run_data, call, result,
                   cancel_pc, terminate_calls, lines, hist, fn_in>>

\* The client runs the scene command: CyclesHandler.set_scene.
CyclesSetScene ==
    /\ fn_out.phase = "scene"
    /\ fn_out' = [fn_out EXCEPT !.phase = IF CyclesAnnounced(fn_in) = 0 THEN "render" ELSE "announce",
                                !.announced = CyclesAnnounced(fn_in)]
    /\ UNCHANGED <<impl, strict, init_keys, pc, queue, enq_count, enq_log, client,
                   returncode, handlers, server, server_thread, is_rendering, exc_info,
                   performing_cleanup, produced, expected, progress, timer, runs,
                   run_data, call, result, cancel_pc, terminate_calls, lines, hist,
                   fn_in>>

\* The adaptor handles the announcement: _handle_set_expected_outputs.
CyclesHandleAnnouncement ==
    /\ fn_out.phase = "announce"
    /\ expected' = fn_out.announced
    /\ fn_out' = [fn_out EXCEPT !.phase = "render"]
    /\ UNCHANGED <<impl, strict, init_keys, pc, queue, enq_count, enq_log, client,
                   returncode, handlers, server, server_thread, is_rendering, exc_info,
                   performing_cleanup, produced, progress, timer, runs, run_data, call,
                   result, cancel_pc, terminate_calls, lines, hist, fn_in>>

\* The client runs start_render; one render ends and the adaptor handles its
\* completion line: _handle_complete.
CyclesRenderFinished ==
    /\ fn_out.phase = "render"
    /\ fn_out.rendered < CyclesRenders(fn_in)
    /\ fn_out' = [fn_out EXCEPT !.rendered = @ + 1]
    /\ produced' = produced + 1
    /\ is_rendering' = IF produced + 1 = expected THEN FALSE ELSE is_rendering
    /\ progress' = IF produced + 1 = expected THEN Percent(100) ELSE progress
    /\ UNCHANGED <<impl, strict, init_keys, pc, queue, enq_count, enq_log, client,
                   returncode, handlers, server, server_thread, exc_info,
                   performing_cleanup, expected, timer, runs, run_data, call, result,
                   cancel_pc, terminate_calls, lines, hist, fn_in>>

\* on_run: while self._blender_is_rendering and not self._has_exception ends.
CyclesRunReturns ==
    /\ fn_out.phase = "render"
    /\ ~is_rendering
    /\ fn_out' = [fn_out EXCEPT !.phase = "returned"]
    /\ UNCHANGED <<impl, strict, init_keys, pc, queue, enq_count, enq_log, client,
                   returncode, handlers, server, server_thread, is_rendering, exc_info,
                   performing_cleanup, produced, expected, progress, timer, runs,
                   run_data, call, result, cancel_pc, terminate_calls, lines, hist,
                   fn_in>>

CyclesNext ==
    \/ CyclesRunStarts \/ CyclesSetScene \/ CyclesHandleAnnouncement
    \/ CyclesRenderFinished \/ CyclesRunReturns

CyclesSpec == CyclesInit /\ [][CyclesNext]_vars

\* C26 as stated: with more than one view layer marked for rendering, the
\* announced count is the number of layers marked for rendering, and once
\* every rendered layer has had its completion line handled the rendering flag
\* is cleared, so that on_run's wait ends.
C26_CyclesCountLetsRunEnd ==
    NumUsed(fn_in) > 1 =>
        /\ fn_out.phase \notin {"on_run", "scene"} => fn_out.announced = NumUsed(fn_in)
        /\ fn_out.rendered = CyclesRenders(fn_in) => ~is_rendering

\* C26, witness: every layer of the scene is marked for rendering, and on_run
\* has returned after two completion lines.
C26_Witness ==
    /\ fn_in = <<TRUE, TRUE>>
    /\ fn_out = [phase |-> "returned", announced |-> 2, rendered |-> 2]
    /\ ~is_rendering

\* A step in which the client takes a command that is not the close command.
ClientTakesCommand ==
    /\ queue # <<>>
    /\ queue' = Tail(queue)
    /\ Head(queue).name # "close"

MaxAssets == 2          \* assets of the project

Assets == 1..MaxAssets

\* rel: the filepath starts with "//"; rule: map_path changes the filepath;
\* missing: the file is missing as given; ok: the remapped file exists.
AssetKinds == [rel : BOOLEAN, rule : BOOLEAN, missing : BOOLEAN, ok : BOOLEAN]

ResolveInit ==
    /\ impl = "dafb"
    /\ strict \in BOOLEAN
    /\ init_keys = {}
    /\ Constructed
    /\ produced = 0
    /\ expected = 0
    /\ fn_in \in [kind : [Assets -> AssetKinds], inside : [Assets \ {1} -> BOOLEAN]]
    /\ fn_out = [phase |-> "start", processed |-> {}, prev |-> -1, todo |-> {},
                 passes |-> 0, again |-> {}, relative |-> {}]

\* _get_assets(): the assets Blender knows, given the remapped ones.
GetAssets(processed) ==
    {a \in Assets : a = 1 \/ ~fn_in.inside[a] \/ 1 \in processed}

\* _get_missing(): the known assets whose file is missing.
GetMissing(processed) ==
    {a \in GetAssets(processed) :
        IF a \in processed THEN ~fn_in.kind[a].ok ELSE fn_in.kind[a].missing}

\* A loop body that gives every asset to map_path.
PassedToMapPathAlways(a, processed) == TRUE

\* if asset.filepath.startswith("//"): continue
\* if asset.name_full not in processed_files: mapped_path = map_path_callback(...)
PassedToMapPath(a, processed) == ~fn_in.kind[a].rel /\ a \notin processed

\* processed_files = set(); prev_processed = -1; missing_assets = _get_missing()
ResolveBegin ==
    /\ fn_out.phase = "start"
    /\ fn_out' = [fn_out EXCEPT !.phase = "check"]
    /\ UNCHANGED <<impl, strict, init_keys, pc, queue, enq_count, enq_log, client,
                   returncode, handlers, server, server_thread, is_rendering, exc_info,
                   performing_cleanup, produced, expected, progress, timer, runs,
                   run_data, call, result, cancel_pc, terminate_calls, lines, hist,
                   fn_in>>

\* while len(missing_assets) != 0: if len(processed_files) == prev_processed:
\* raise or print and break; prev_processed = len(processed_files);
\* assets = self._get_assets()
ResolveCheck ==
    /\ fn_out.phase = "check"
    /\ fn_out' =
         IF GetMissing(fn_out.processed) = {}
         THEN [fn_out EXCEPT !.phase = "returned"]
         ELSE IF Cardinality(fn_out.processed) = fn_out.prev
         THEN [fn_out EXCEPT !.phase = IF strict THEN "raised" ELSE "returned"]
         ELSE [fn_out EXCEPT !.phase = "pass",
                             !.prev = Cardinality(fn_out.processed),
                             !.todo = GetAssets(fn_out.processed),
                             !.passes = @ + 1]
    /\ UNCHANGED <<impl, strict, init_keys, pc, queue, enq_count, enq_log, client,
                   returncode, handlers, server, server_thread, is_rendering, exc_info,
                   performing_cleanup, produced, expected, progress, timer, runs,
                   run_data, call, result, cancel_pc, terminate_calls, lines, hist,
                   fn_in>>

\* One iteration of "for asset in assets", in whatever order the list has.
ResolveVisit ==
    /\ fn_out.phase = "pass"
    /\ \E a \in fn_out.todo :
          LET called == PassedToMapPath(a, fn_out.processed)
              changed == called /\ fn_in.kind[a].rule
          IN  fn_out' = [fn_out EXCEPT
                  !.todo = @ \ {a},
                  !.processed = IF changed THEN @ \cup {a} ELSE @,
                  !.again = IF called /\ a \in fn_out.processed THEN @ \cup {a} ELSE @,
                  !.relative = IF called /\ fn_in.kind[a].rel THEN @ \cup {a} ELSE @]
    /\ UNCHANGED <<impl, strict, init_keys, pc, queue, enq_count, enq_log, client,
                   returncode, handlers, server, server_thread, is_rendering, exc_info,
                   performing_cleanup, produced, expected, progress, timer, runs,
                   run_data, call, result, cancel_pc, terminate_calls, lines, hist,
                   fn_in>>

\* The for loop is over: missing_assets = self._get_missing()
ResolvePassEnds ==
    /\ fn_out.phase = "pass"
    /\ fn_out.todo = {}
    /\ fn_out' = [fn_out EXCEPT !.phase = "check"]
    /\ UNCHANGED <<impl, strict, init_keys, pc, queue, enq_count, enq_log, client,
                   returncode, handlers, server, server_thread, is_rendering, exc_info,
                   performing_cleanup, produced, expected, progress, timer, runs,
                   run_data, call, result, cancel_pc, terminate_calls, lines, hist,
                   fn_in>>

ResolveNext == ResolveBegin \/ ResolveCheck \/ ResolveVisit \/ ResolvePassEnds

\* resolve_assets runs on the client's only thread: it keeps running.
ResolveSpec == ResolveInit /\ [][ResolveNext]_vars /\ WF_vars(ResolveNext)

ResolveEnded == fn_out.phase \in {"returned", "raised"}

\* A pass would begin with no asset remapped since the pass before.
ResolveStalled == Cardinality(fn_out.processed) = fn_out.prev

\* C29: resolve_assets terminates; its loop ends exactly when no asset is
\* missing or, assets still missing, at the first check that finds no asset
\* remapped since the previous pass, where it raises if strict_error_checking
\* is true and returns otherwise; an asset that has been remapped is never
\* given to map_path again, and an asset with a "//" path never is.
C29_ResolveAssetsTerminates ==
    /\ <>ResolveEnded
    /\ [](fn_out.passes <= MaxAssets + 1)
    /\ [][(fn_out.phase = "check" /\ fn_out'.phase # "check") =>
            LET missing == GetMissing(fn_out.processed)
            IN  /\ fn_out'.phase = "returned" <=> (missing = {} \/ (ResolveStalled /\ ~strict))
                /\ fn_out'.phase = "raised" <=> (missing # {} /\ ResolveStalled /\ strict)
                /\ fn_out'.phase = "pass" <=> (missing # {} /\ ~ResolveStalled)]_vars
    /\ [](fn_out.again = {} /\ fn_out.relative = {})

\* C29, witness: with strict_error_checking true, the library was remapped in
\* the first pass, the asset inside it appeared and could not be remapped in
\* the second, and the third check raised.
C29_Witness ==
    /\ strict
    /\ fn_out.phase = "raised"
    /\ fn_out.passes = 2
    /\ fn_out.processed = {1}
    /\ fn_in.inside[2]
    /\ GetMissing(fn_out.processed) = {2}

(***************************************************************************)
(* dafb _action_from_action_item, as a function of the item, of the value  *)
(* in run_data and of the path mapping rule in force.  A value is a string, *)
(* modelled as a sequence of characters.                                   *)
(***************************************************************************)
MaxPathLen == 3         \* longest value of a run_data item

PathValues == UNION {[1..n -> {"/", "a", "b"}] : n \in 0..MaxPathLen}

\* The path mapping rules of the session: a source prefix and its replacement
\* (an empty source stands for no rule).
PathRules == {[from |-> <<>>, to |-> <<>>],
              [from |-> <<"/">>, to |-> <<"b">>],
              [from |-> <<"/", "a">>, to |-> <<"/", "b">>]}

\* value.startswith(prefix)
StartsWith(value, prefix) ==
    /\ Len(value) >= Len(prefix)
    /\ SubSeq(value, 1, Len(prefix)) = prefix

\* self.map_path(value): the rule applied to a value that starts with its
\* source, the value itself otherwise.
MapPath(rule, value) ==
    IF rule.from # <<>> /\ StartsWith(value, rule.from)
    THEN rule.to \o SubSeq(value, Len(rule.from) + 1, Len(value))
    ELSE value

\* ActionItem.requires_path_mapping of the items of _FIRST_RUN_ACTIONS and
\* _BLENDER_RUN_KEYS.
RequiresPathMapping(name) == name = "output_path"

\* An _action_from_action_item that maps the project-relative paths too.
ActionFromActionItemNoSentinel(name, value, rule) ==
    [name |-> name,
     value |-> IF RequiresPathMapping(name) THEN MapPath(rule, value) ELSE value]

\* _action_from_action_item(item, data)
ActionFromActionItem(name, value, rule) ==
    [name |-> name,
     value |-> IF RequiresPathMapping(name) /\ ~StartsWith(value, <<"/", "/">>)
               THEN MapPath(rule, value)
               ELSE value]

PathMapInit ==
    /\ impl = "dafb"
    /\ strict = FALSE
    /\ init_keys = {}
    /\ Constructed
    /\ produced = 0
    /\ expected = 0
    /\ fn_in \in [name : Range(_FIRST_RUN_ACTIONS) \cup _BLENDER_RUN_KEYS,
                  value : PathValues, rule : PathRules]
    /\ fn_out = <<>>

\* on_run: enqueue_action(self._action_from_action_item(action_item, ...))
EnqueueActionItem ==
    /\ fn_out = <<>>
    /\ fn_out' = <<ActionFromActionItem(fn_in.name, fn_in.value, fn_in.rule)>>
    /\ queue' = enqueue_action(queue, fn_out'[1], FALSE)
    /\ UNCHANGED <<impl, strict, init_keys, pc, enq_count, enq_log, client, returncode,
                   handlers, server, server_thread, is_rendering, exc_info,
                   performing_cleanup, produced, expected, progress, timer, runs,
                   run_data, call, result, cancel_pc, terminate_calls, lines, hist,
                   fn_in>>

PathMapSpec == PathMapInit /\ [][EnqueueActionItem]_vars

\* C30: the value enqueued for output_path is map_path(value), unless the value
\* starts with "//", in which case it is the value itself; the value enqueued
\* for an item that requires no path mapping is always the value itself.
C30_PathMappedUnlessRelative ==
    fn_out # <<>> =>
        /\ queue = fn_out
        /\ fn_out[1].name = fn_in.name
        /\ (fn_in.name = "output_path" /\ Len(fn_in.value) >= 2
              /\ fn_in.value[1] = "/" /\ fn_in.value[2] = "/")
              => fn_out[1].value = fn_in.value
        /\ (fn_in.name = "output_path"
              /\ ~(Len(fn_in.value) >= 2 /\ fn_in.value[1] = "/" /\ fn_in.value[2] = "/"))
              => fn_out[1].value = MapPath(fn_in.rule, fn_in.value)
        /\ fn_in.name # "output_path" => fn_out[1].value = fn_in.value

\* C30, witness: an output_path "//a" is enqueued unchanged under a rule that
\* would have changed it.
C30_Witness ==
    /\ fn_out # <<>>
    /\ fn_in.name = "output_path"
    /\ fn_in.value = <<"/", "/", "a">>
    /\ MapPath(fn_in.rule, fn_in.value) # fn_in.value
    /\ queue[1].value = <<"/", "/", "a">>

(***************************************************************************)
(* get_render_handler (dafb client).  fn_in is the module-level table      *)
(* renderers, a defaultdict: a lookup of a missing name stores the default. *)
(***************************************************************************)
\* renderers = defaultdict(lambda: CyclesHandler, {...})
Renderers ==
    [n \in {"BLENDER_WORKBENCH", "CYCLES"} |->
        IF n = "CYCLES" THEN "CyclesHandler" ELSE "BlenderHandlerBase"]

\* The names get_render_handler is called with.
RendererNames ==
    DOMAIN Renderers \cup
        {"", "BLENDER_EEVEE", "mayaSoftware", "cycles", "renderer that doesn't exist"}

\* A lookup in a plain dict.
RenderersItemPlain(table, name) ==
    IF name \in DOMAIN table THEN table[name] ELSE "KeyError"

\* renderers[renderer]
RenderersItem(table, name) ==
    IF name \in DOMAIN table THEN table[name] ELSE "CyclesHandler"

HandlerInit ==
    /\ impl = "dafb"
    /\ strict = FALSE
    /\ init_keys = {}
    /\ Constructed
    /\ produced = 0
    /\ expected = 0
    /\ fn_in = Renderers
    /\ fn_out = <<>>

\* get_render_handler(renderer): return renderers[renderer]()
\* fn_out is <<renderer, class of the instance returned or the error raised>>.
get_render_handler ==
    \E name \in RendererNames :
        LET class == RenderersItem(fn_in, name)
        IN  /\ fn_out' = <<name, class>>
            /\ fn_in' = IF name \in DOMAIN fn_in \/ class = "KeyError" THEN fn_in
                        ELSE [n \in DOMAIN fn_in \cup {name} |->
                                 IF n = name THEN class ELSE fn_in[n]]
            /\ UNCHANGED <<impl, strict, init_keys, pc, queue, enq_count, enq_log,
                           client, returncode, handlers, server, server_thread,
                           is_rendering, exc_info, performing_cleanup, produced,
                           expected, progress, timer, runs, run_data, call, result,
                           cancel_pc, terminate_calls, lines, hist>>

HandlerSpec == HandlerInit /\ [][get_render_handler]_vars

\* C31: get_render_handler returns an instance of the class the table maps the
\* name to, and an instance of CyclesHandler for every other name, the empty
\* string included; it never fails, whatever was looked up before.
C31_UnknownRendererGetsCycles ==
    /\ fn_in["BLENDER_WORKBENCH"] = "BlenderHandlerBase"
    /\ fn_in["CYCLES"] = "CyclesHandler"
    /\ fn_out # <<>> =>
          fn_out[2] = IF fn_out[1] = "BLENDER_WORKBENCH" THEN "BlenderHandlerBase"
                      ELSE "CyclesHandler"

\* C31, witness: the empty name was looked up after another unknown name, and
\* a Cycles handler was returned.
C31_Witness ==
    /\ fn_out = <<"", "CyclesHandler">>
    /\ "mayaSoftware" \in DOMAIN fn_in

\* C32 as stated: at the step in which on_start returns without raising, the
\* process is running and the queue is empty.
C32_StartReturnsWithProcess ==
    [][(call = "on_start" /\ pc # "idle" /\ pc' = "idle" /\ result' = Returned) =>
          (_blender_is_running /\ queue = <<>>)]_vars

\* C32, witness: on_start has returned with the process running and every
\* initialization command dequeued.
C32_Witness ==
    /\ call = "on_start"
    /\ pc = "idle"
    /\ result = Returned
    /\ client = "running"
    /\ queue = <<>>
    /\ hist.delivered = enq_count
    /\ hist.loop_exit = "drained"

(***************************************************************************)
(* C33: the pending exception is sticky.                                   *)
(***************************************************************************)
\* The ways an on_run can end without returning normally.
RunFailures == {"pending_exception", "exited_early", "ValidationError"}

C33_CleanupReturns ==
    /\ call = "on_cleanup"
    /\ pc = "terminated"
    /\ result = Returned
    /\ exc_info # "None"

(***************************************************************************)
(* C34: the expected-output count when a progress line is handled (dafb).  *)
(***************************************************************************)
\* C34 as stated: whenever the dafb _handle_progress runs its body (the guard
\* of _check_for_exception lets it through), _expected_outputs is at least 1.
C34_ExpectedAtLeastOne ==
    [][(impl = "dafb" /\ HandleProgress /\ ~CheckForExceptionRaises) => expected >= 1]_vars

\* C34, witness: a progress line has been handled during on_run, after on_run
\* set the expected count, and the progress reported is the quotient.
C34_Witness ==
    /\ impl = "dafb"
    /\ call = "on_run"
    /\ pc \in RunWaitPcs
    /\ expected >= 1
    /\ \E line \in ProgressLines : progress = ProgressDafb(line[1], line[2])

(***************************************************************************)
(* _parse_frame_range (submitter).  fn_in is the frame string, a sequence  *)
(* of characters; fn_out is <<what the call returned or raised>>.          *)
(***************************************************************************)
MaxFrameLen == 6        \* longest frame string

\* The characters frame strings are made of.
FrameChars == {"0", "1", "3", "-", ":", "\n"}

FrameStrings == UNION {[1..n -> FrameChars] : n \in 0..MaxFrameLen}

\* \d, and the value int() gives each digit.
DigitChars == <<"0", "1", "2", "3", "4", "5", "6", "7", "8", "9">>

\* -?\d+
IsInt(t) ==
    LET d == IF t # <<>> /\ t[1] = "-" THEN Tail(t) ELSE t
    IN  d # <<>> /\ \A i \in 1..Len(d) : d[i] \in Range(DigitChars)

RECURSIVE DigitsValue(_)
DigitsValue(d) ==
    IF d = <<>> THEN 0
    ELSE 10 * DigitsValue(SubSeq(d, 1, Len(d) - 1))
            + (CHOOSE v \in 0..9 : DigitChars[v + 1] = d[Len(d)])

\* int(match.group(...)) of a string that matched -?\d+
int(t) == IF t[1] = "-" THEN 0 - DigitsValue(Tail(t)) ELSE DigitsValue(t)

\* The ways the whole of s reads as start, start-stop or start-stop:step, each
\* part matching -?\d+ (at most one way); a group that is absent is <<>>.
FrameListGroups(s) ==
    (IF IsInt(s) THEN {[start |-> s, stop |-> <<>>, step |-> <<>>]} ELSE {})
    \cup
    {[start |-> SubSeq(s, 1, i - 1), stop |-> SubSeq(s, i + 1, Len(s)), step |-> <<>>] :
        i \in {i \in 2..Len(s) : /\ s[i] = "-"
                                 /\ IsInt(SubSeq(s, 1, i - 1))
                                 /\ IsInt(SubSeq(s, i + 1, Len(s)))}}
    \cup
    {[start |-> SubSeq(s, 1, p[1] - 1), stop |-> SubSeq(s, p[1] + 1, p[2] - 1),
      step |-> SubSeq(s, p[2] + 1, Len(s))] :
        p \in {p \in (2..Len(s)) \X (2..Len(s)) :
                  /\ p[1] < p[2]
                  /\ s[p[1]] = "-"
                  /\ s[p[2]] = ":"
                  /\ IsInt(SubSeq(s, 1, p[1] - 1))
                  /\ IsInt(SubSeq(s, p[1] + 1, p[2] - 1))
                  /\ IsInt(SubSeq(s, p[2] + 1, Len(s)))}}

\* framelist_re.match(frame_string) with the pattern ^...$: "$" matches at the
\* end of the string and also just before a newline that ends the string.
framelist_re_match(s) ==
    FrameListGroups(s) \cup
        (IF s # <<>> /\ s[Len(s)] = "\n" THEN FrameListGroups(SubSeq(s, 1, Len(s) - 1))
         ELSE {})

\* list(range(start, stop, step)) for a step that is not zero
range(start, stop, step) ==
    LET n == IF step > 0
             THEN (IF stop > start THEN (stop - start + step - 1) \div step ELSE 0)
             ELSE (IF start > stop THEN (start - stop - step - 1) \div (0 - step) ELSE 0)
    IN  [k \in 1..n |-> start + (k - 1) * step]

\* What a call raised, or the list it returned.
FrameResult(error, frames) == [error |-> error, frames |-> frames]

_parse_frame_range(frame_string) ==
    LET match == framelist_re_match(frame_string)
    IN  IF match = {} THEN FrameResult("Frame list not valid", <<>>)
        ELSE LET g == CHOOSE m \in match : TRUE
                 start == int(g.start)
                 stop == IF g.stop # <<>> THEN int(g.stop) ELSE start
                 frame_step == IF g.step # <<>> THEN int(g.step)
                               ELSE IF start < stop THEN 1 ELSE -1
             IN  IF frame_step = 0
                 THEN FrameResult("Frame step cannot be zero", <<>>)
                 ELSE IF start > stop /\ frame_step > 0
                 THEN FrameResult("Start frame must be less than stop frame if step is positive", <<>>)
                 ELSE IF start < stop /\ frame_step < 0
                 THEN FrameResult("Start frame must be greater than stop frame if step is negative", <<>>)
                 ELSE FrameResult("None",
                         range(start, stop + (IF frame_step > 0 THEN 1 ELSE -1), frame_step))

FramesInit ==
    /\ impl = "deadline"
    /\ strict = FALSE
    /\ init_keys = {}
    /\ Constructed
    /\ produced = 0
    /\ expected = 0
    /\ fn_in \in FrameStrings
    /\ fn_out = <<>>

ParseFrameRange ==
    /\ fn_out = <<>>
    /\ fn_out' = <<_parse_frame_range(fn_in)>>
    /\ UNCHANGED <<impl, strict, init_keys, pc, queue, enq_count, enq_log, client,
                   returncode, handlers, server, server_thread, is_rendering, exc_info,
                   performing_cleanup, produced, expected, progress, timer, runs,
                   run_data, call, result, cancel_pc, terminate_calls, lines, hist,
                   fn_in>>

FramesSpec == FramesInit /\ [][ParseFrameRange]_vars

\* The frames start, start + step, ... that do not pass stop, as a list: it
\* begins with start, advances by step, stays between start and stop, and the
\* frame after its last one is beyond stop.
IsFramesUpTo(frames, start, stop, step) ==
    /\ frames # <<>>
    /\ \A k \in 1..Len(frames) :
          /\ frames[k] = start + (k - 1) * step
          /\ IF step > 0 THEN frames[k] <= stop ELSE frames[k] >= stop
    /\ LET after == start + Len(frames) * step
       IN  IF step > 0 THEN after > stop ELSE after < stop

\* What the claim says of the string s and of the outcome r of the call.
FrameRangeAsStated(s, r) ==
    LET shapes == FrameListGroups(s)
    IN  IF shapes = {} THEN r.error # "None"
        ELSE LET g == CHOOSE m \in shapes : TRUE
                 start == int(g.start)
                 stop == IF g.stop # <<>> THEN int(g.stop) ELSE start
                 step == IF g.step # <<>> THEN int(g.step)
                         ELSE IF start < stop THEN 1 ELSE -1
             IN  IF step = 0 \/ (start > stop /\ step > 0) \/ (start < stop /\ step < 0)
                 THEN r.error # "None"
                 ELSE r.error = "None" /\ IsFramesUpTo(r.frames, start, stop, step)

\* C35 as stated: for 'start', 'start-stop' and 'start-stop:step' the call
\* returns exactly the frames from start by step that do not pass stop (with
\* the defaults for stop and step), and it raises ValueError for a string of
\* any other shape, for a zero step and for a step of the wrong sign.
C35_FramesOrValueError ==
    fn_out # <<>> => FrameRangeAsStated(fn_in, fn_out[1])

\* C35 holds of every string that does not end with a newline.
C35_WithoutNewline ==
    (fn_out # <<>> /\ (fn_in = <<>> \/ fn_in[Len(fn_in)] # "\n")) =>
        FrameRangeAsStated(fn_in, fn_out[1])

\* C35, witness: '3-0:-1' gave the frames 3, 2, 1, 0.
C35_Witness ==
    /\ fn_in = <<"3", "-", "0", ":", "-", "1">>
    /\ fn_out = <<FrameResult("None", <<3, 2, 1, 0>>)>>

====
